---- MODULE Spec2Model ----
(***************************************************************************)
(* Cybo-Air: safety envelope and duty-cycle governance engine.             *)
(*                                                                         *)
(* The repository holds several independent programs and libraries.  Each *)
(* is modelled as its own group of variables and actions; the variable     *)
(* prog says which of them a behaviour runs, and every action is guarded   *)
(* by it, so a behaviour is a run of one program.                          *)
(*                                                                         *)
(* Numbers.  An f64 is modelled in fixed point: a value v of the model     *)
(* stands for the real v / Scale (duty cycles, gains, weights, indices).   *)
(* Physical quantities keep integer units of their own: mass in 1e-9 kg,   *)
(* karma in 1e3 NanoKarmaBytes, power in W, energy in J, altitude in m,    *)
(* DW flux density in 1e-7.  Products and quotients of fixed-point values  *)
(* round down to the grid (FMul, FDiv).  Where the code divides by a value *)
(* it does not guard, the IEEE results NaN and +-inf are modelled (the     *)
(* F-records below).  Magnitudes stay far below f64 overflow.              *)
(***************************************************************************)
EXTENDS Integers, Sequences, FiniteSets, TLC

VARIABLES
    prog,        \* which program of the repository this behaviour runs
    \* ---- cyboair_corridor_safety (lib.rs, main.rs)
    cfg,         \* the CorridorController (envelope, budget, band, ceiling, gains)
    nodes,       \* the Vec<NodeState> of the cycle
    pc,          \* position in main's control cycle
    idx,         \* index of the next node of `for node in nodes.iter_mut()`
    band,        \* the EcoBand classified for this cycle
    phi_dw,      \* the DW flux density of this cycle
    lastUpdate,  \* the last update_node_duty call: node index, node before, result
    \* ---- cybo_air_bee_guard (main.rs)
    beeCfg,      \* temperature, molar mass, reference scales and gains of main
    beeNodes,    \* the Vec<NodeState> of the bee guard
    beePc,       \* position in the bee guard's update step
    beeIdx,      \* index of the next node of its update loop
    \* ---- particles/cyboair_microspace_kernel.rs
    microIn,     \* the arguments of step_node other than u_k
    microU,      \* the node's duty cycle u_k, fed back from duty_next
    microTel,    \* the NodeTelemetry of the last step_node call
    \* ---- cybernet/src/bee (predicates.rs)
    admIn,       \* an agent: its BeeStressorState, BeeCorridorPolytope and BeeKarma
    admOut,      \* the result of the last is_bee_admissible call
    \* ---- cyboair-bee-karma (lib.rs)
    rightsIn,    \* a BeeEnvSample, a proposed duty cycle, a polytope, a tolerance
    rightsOut,   \* the result of the last is_inside / enforce_bee_rights call
    \* ---- cybo-corridor-core (lib.rs)
    hysCur,      \* the current BeeState
    hysProp,     \* the proposed BeeState
    hysInv,      \* the BeeCorridorInvariant
    hysPc,       \* idle, a proposal made, or a call returned
    hysOut,      \* the last call of next_state / classify_trigger and its result
    \* ---- cybernet/src/bee (liability.rs, predicates.rs BloodGated)
    ledEnv,      \* the agent's BeeKarmaEnvelope
    ledCfg,      \* warn_threshold, downgrade_threshold, karma_penalty_scale
    ledHarm,     \* the HarmAggregation to be applied
    ledPc,       \* whether a HarmAggregation awaits its application
    ledBase,     \* history: kappa when last set outside the ledger, penalties since
    \* ---- the estimators (cyboair_corridor_safety lib.rs, eibon_core lib.rs)
    estRow,      \* a shard row with the temperature and the molar mass
    estOut,      \* the last estimator call and its result
    \* ---- the risk normalizers (crates/cyboair-bee-guard main.rs, eibon_core lib.rs)
    riskIn,      \* alpha, the reference scale and the aggregate karma
    riskOut,     \* the last normalizer call and its result
    \* ---- cyboair-governance (lib.rs, guards.rs, pipeline.rs)
    govProposal, \* a Proposal of lib.rs: node_ids and duty_cycles
    govControl,  \* a ControlProposal of guards.rs
    govOut,      \* the last call of a guard or verifier and its result
    \* ---- cybernet/src/bee (liability.rs), in binary floating point
    fltEnv,      \* kappa and blood_gate_level of the envelope, kappa a float
    fltCfg,      \* warn_threshold, downgrade_threshold, karma_penalty_scale
    fltHist      \* history: the first kappa, the penalties charged, the calls

corridorVars == <<cfg, nodes, pc, idx, band, phi_dw, lastUpdate>>
beeVars == <<beeCfg, beeNodes, beePc, beeIdx>>
microVars == <<microIn, microU, microTel>>
admVars == <<admIn, admOut>>
rightsVars == <<rightsIn, rightsOut>>
hysVars == <<hysCur, hysProp, hysInv, hysPc, hysOut>>
ledVars == <<ledEnv, ledCfg, ledHarm, ledPc, ledBase>>
estVars == <<estRow, estOut>>
riskVars == <<riskIn, riskOut>>
govVars == <<govProposal, govControl, govOut>>
fltVars == <<fltEnv, fltCfg, fltHist>>

\* the variables of the programs other than the one an action belongs to
notCorridor ==
    <<beeVars, microVars, admVars, rightsVars, hysVars, ledVars, estVars, riskVars, govVars, fltVars>>
notBee ==
    <<corridorVars, microVars, admVars, rightsVars, hysVars, ledVars, estVars, riskVars, govVars, fltVars>>
notMicro ==
    <<corridorVars, beeVars, admVars, rightsVars, hysVars, ledVars, estVars, riskVars, govVars, fltVars>>
notAdm ==
    <<corridorVars, beeVars, microVars, rightsVars, hysVars, ledVars, estVars, riskVars, govVars, fltVars>>
notRights ==
    <<corridorVars, beeVars, microVars, admVars, hysVars, ledVars, estVars, riskVars, govVars, fltVars>>
notHys ==
    <<corridorVars, beeVars, microVars, admVars, rightsVars, ledVars, estVars, riskVars, govVars, fltVars>>
notLed ==
    <<corridorVars, beeVars, microVars, admVars, rightsVars, hysVars, estVars, riskVars, govVars, fltVars>>
notEst ==
    <<corridorVars, beeVars, microVars, admVars, rightsVars, hysVars, ledVars, riskVars, govVars, fltVars>>
notRisk ==
    <<corridorVars, beeVars, microVars, admVars, rightsVars, hysVars, ledVars, estVars, govVars, fltVars>>
notGov ==
    <<corridorVars, beeVars, microVars, admVars, rightsVars, hysVars, ledVars, estVars, riskVars, fltVars>>
notFlt ==
    <<corridorVars, beeVars, microVars, admVars, rightsVars, hysVars, ledVars, estVars, riskVars, govVars>>

vars ==
    <<prog, corridorVars, beeVars, microVars, admVars, rightsVars, hysVars, ledVars,
      estVars, riskVars, govVars, fltVars>>

(***************************************************************************)
(* Fixed point.                                                            *)
(***************************************************************************)
Scale == 100

Max(a, b) == IF a >= b THEN a ELSE b
Min(a, b) == IF a <= b THEN a ELSE b

\* a * b and a / b of two fixed-point values, rounded down to the grid.
FMul(a, b) == (a * b) \div Scale
\* the ratio of two quantities of the same unit, as a fixed-point value (b # 0)
FDiv(a, b) == (a * Scale) \div b

(***************************************************************************)
(* IEEE-754 special values, where the code divides without a guard.  A     *)
(* float is a record: finite (a fixed-point value), +-inf, or NaN.         *)
(***************************************************************************)
Fin(v) == [k |-> "fin", v |-> v]
NaN    == [k |-> "nan", v |-> 0]
PosInf == [k |-> "inf", v |-> 1]
NegInf == [k |-> "inf", v |-> -1]

Sign(n) == IF n < 0 THEN -1 ELSE 1
Abs(n) == IF n < 0 THEN -n ELSE n
InfOf(sg) == IF sg < 0 THEN NegInf ELSE PosInf

\* a / b : x/0 is +-inf by the sign of x (the zero taken as +0.0), 0/0 and
\* inf/inf are NaN.
fdiv(a, b) ==
    IF a.k = "nan" \/ b.k = "nan" THEN NaN
    ELSE IF a.k = "inf" THEN (IF b.k = "inf" THEN NaN ELSE InfOf(a.v * Sign(b.v)))
    ELSE IF b.k = "inf" THEN Fin(0)
    ELSE IF b.v = 0 THEN (IF a.v = 0 THEN NaN ELSE InfOf(a.v))
    ELSE Fin(FDiv(a.v, b.v))

\* a * b : 0 * inf is NaN.
fmul(a, b) ==
    IF a.k = "nan" \/ b.k = "nan" THEN NaN
    ELSE IF a.k = "inf" \/ b.k = "inf"
    THEN (IF a.v = 0 \/ b.v = 0 THEN NaN ELSE InfOf(Sign(a.v) * Sign(b.v)))
    ELSE Fin(FMul(a.v, b.v))

\* a + b : inf + -inf is NaN.
fadd(a, b) ==
    IF a.k = "nan" \/ b.k = "nan" THEN NaN
    ELSE IF a.k = "inf" /\ b.k = "inf" THEN (IF a.v = b.v THEN a ELSE NaN)
    ELSE IF a.k = "inf" THEN a
    ELSE IF b.k = "inf" THEN b
    ELSE Fin(a.v + b.v)

fneg(a) == IF a.k = "nan" THEN NaN ELSE [a EXCEPT !.v = -a.v]
fsub(a, b) == fadd(a, fneg(b))

\* a < b : false when either is NaN.
flt(a, b) ==
    /\ a.k # "nan"
    /\ b.k # "nan"
    /\ IF a.k = "inf" THEN a.v < 0 /\ b # a
       ELSE IF b.k = "inf" THEN b.v > 0
       ELSE a.v < b.v
fgt(a, b) == flt(b, a)

\* f64::min : the other operand when one is NaN.
fmin(a, b) ==
    IF a.k = "nan" THEN b
    ELSE IF b.k = "nan" THEN a
    ELSE IF flt(b, a) THEN b ELSE a

(***************************************************************************)
(* cyboair_corridor_safety/src/lib.rs                                      *)
(***************************************************************************)

\* check_envelope with the bounds taken as exclusive (<= and >= for < and >).
check_envelope_exclusive(c, node) ==
    LET u == node.duty_cycle
        z == c.altitude_m[node.location]
        s == node.ecoimpact_score
    IN  IF u <= c.u_min \/ u >= c.u_max
        THEN "EnvelopeViolation"
        ELSE IF z <= c.z_min_m \/ z >= c.z_max_m
        THEN "EnvelopeViolation"
        ELSE IF s <= c.ecoimpact_min \/ s >= c.ecoimpact_max
        THEN "EnvelopeViolation"
        ELSE "Ok"

\* RectSafetyEnvelope::check_envelope: the three early returns, in order.
\* cfg.altitude_m is the externally supplied altitude lookup, a function of the
\* location tag.
check_envelope(c, node) ==
    LET u == node.duty_cycle
        z == c.altitude_m[node.location]
        s == node.ecoimpact_score
    IN  IF u < c.u_min \/ u > c.u_max
        THEN "EnvelopeViolation"
        ELSE IF z < c.z_min_m \/ z > c.z_max_m
        THEN "EnvelopeViolation"
        ELSE IF s < c.ecoimpact_min \/ s > c.ecoimpact_max
        THEN "EnvelopeViolation"
        ELSE "Ok"

\* SimpleHostBudget::check_host_budget
check_host_budget(c, node) ==
    IF node.power_w > c.p_max_w
    THEN "HostBudgetExceeded"
    ELSE LET e_step == node.power_w * c.step_dt_s
         IN  IF e_step > c.e_step_max_j
             THEN "HostBudgetExceeded"
             ELSE "Ok"

\* power_fraction without the floor at 0.
power_fraction_signed(c, node) ==
    IF c.p_max_w <= 0
    THEN 0
    ELSE FDiv(node.power_w, c.p_max_w)

\* SimpleHostBudget::power_fraction
power_fraction(c, node) ==
    IF c.p_max_w <= 0
    THEN 0
    ELSE Max(FDiv(node.power_w, c.p_max_w), 0)

\* ThresholdEcoBand::classify
classify(c, eco_load) ==
    IF eco_load < c.theta_green_amber
    THEN "Green"
    ELSE IF eco_load < c.theta_amber_red
    THEN "Amber"
    ELSE "Red"

\* ThresholdEcoBand::band_gain
band_gain(c, b) ==
    CASE b = "Green" -> c.gain_green
      [] b = "Amber" -> c.gain_amber
      [] b = "Red"   -> c.gain_red

\* SimpleDwCeiling::check_dw_ceiling
check_dw_ceiling(c, phi) ==
    IF phi > c.phi_dw_max THEN "DwCeilingExceeded" ELSE "Ok"

\* SimpleDwCeiling::dw_violation
dw_violation(c, phi) ==
    IF c.phi_dw_max <= 0
    THEN 0
    ELSE Max(FDiv(phi - c.phi_dw_max, c.phi_dw_max), 0)

\* the sum of field f over the nodes
RECURSIVE SumField(_, _, _)
SumField(ns, f, n) ==
    IF n = 0 THEN 0 ELSE ns[n][f] + SumField(ns, f, n - 1)

\* CorridorController::eco_load
eco_load(c, ns, alpha_m, alpha_k) ==
    LET m_sum  == SumField(ns, "mass_kg", Len(ns))
        k_sum  == SumField(ns, "karma_bytes", Len(ns))
        m_norm == IF c.m_ref_kg > 0 THEN FDiv(m_sum, c.m_ref_kg) ELSE 0
        k_norm == IF c.k_ref_nb > 0 THEN FDiv(k_sum, c.k_ref_nb) ELSE 0
    IN  FMul(alpha_m, m_norm) + FMul(alpha_k, k_norm)

\* The projection onto [0,1] at the end of update_node_duty.
project01(u_new) ==
    IF u_new < 0 THEN 0
    ELSE IF u_new > Scale THEN Scale
    ELSE u_new

\* Equation 5 of update_node_duty, before the projection.
duty_law(c, node, eco_band, phi) ==
    LET m_norm == IF c.m_ref_kg > 0 THEN FDiv(node.mass_kg, c.m_ref_kg) ELSE 0
        k_norm == IF c.k_ref_nb > 0 THEN FDiv(node.karma_bytes, c.k_ref_nb) ELSE 0
        w      == node.geo_weight
        bg     == band_gain(c, eco_band)
        p_frac == power_fraction(c, node)
        dw     == dw_violation(c, phi)
    IN  node.duty_cycle
          + FMul(c.eta_m, m_norm)
          + FMul(c.eta_k, k_norm)
          + FMul(c.eta_w, w)
          + FMul(c.eta_b, bg)
          - FMul(c.eta_p, p_frac)
          - FMul(c.eta_dw, dw)

\* update_node_duty committing the new duty cycle before it returns a guard's
\* error.
update_node_duty_commit_first(c, node, eco_band, phi) ==
    LET env == check_envelope(c, node)
        hb  == check_host_budget(c, node)
        upd == [node EXCEPT !.duty_cycle = project01(duty_law(c, node, eco_band, phi))]
    IN  IF env # "Ok" THEN [res |-> env, node |-> upd]
        ELSE IF hb # "Ok" THEN [res |-> hb, node |-> upd]
        ELSE [res |-> "Ok", node |-> upd]

\* CorridorController::update_node_duty: the result and the node afterwards.
\* The two `?` return the guard's error with the node untouched.
update_node_duty(c, node, eco_band, phi) ==
    LET env == check_envelope(c, node)
        hb  == check_host_budget(c, node)
    IN  IF env # "Ok" THEN [res |-> env, node |-> node]
        ELSE IF hb # "Ok" THEN [res |-> hb, node |-> node]
        ELSE [res  |-> "Ok",
              node |-> [node EXCEPT !.duty_cycle =
                                      project01(duty_law(c, node, eco_band, phi))]]

(***************************************************************************)
(* cyboair_corridor_safety/src/main.rs: the control cycle.                 *)
(***************************************************************************)

\* fn phoenix_altitude_m: 331 m whatever the location.
Locations == {"Phoenix-Intersection-A", "Elementary-North", "Basin-Floor", "Ridge-Top"}
phoenix_altitude_m == [l \in Locations |-> 331]
\* A DEM-based lookup ("replace with real DEM-based lookup in production"),
\* with locations on and beyond the altitude bounds of main's envelope.
dem_altitude_m ==
    [l \in Locations |->
        CASE l = "Phoenix-Intersection-A" -> 5
          [] l = "Elementary-North"       -> 600
          [] l = "Basin-Floor"            -> 4
          [] l = "Ridge-Top"              -> 601]

\* The controller main builds (lines 76-120): duty, ecoimpact, gains and
\* thresholds in 1/Scale, power in W, energy in J, mass in 1e-9 kg, karma in
\* 1e3 bytes, flux density in 1e-7.
MainController ==
    [u_min |-> 0, u_max |-> Scale, z_min_m |-> 5, z_max_m |-> 600,
     ecoimpact_min |-> (70 * Scale) \div 100, ecoimpact_max |-> Scale,
     altitude_m |-> phoenix_altitude_m,
     p_max_w |-> 150, e_step_max_j |-> 100000, step_dt_s |-> 300,
     theta_green_amber |-> Scale \div 2, theta_amber_red |-> Scale,
     gain_green |-> 0, gain_amber |-> Scale \div 5, gain_red |-> Scale \div 2,
     phi_dw_max |-> 10,
     m_ref_kg |-> 1000, k_ref_nb |-> 10000000,
     eta_m |-> Scale \div 10, eta_k |-> Scale \div 10, eta_w |-> Scale \div 5,
     eta_b |-> Scale \div 5, eta_p |-> Scale \div 20, eta_dw |-> Scale \div 10]

\* Other configurations a caller can build (every field is pub): extreme gains
\* of either sign, reference scales and ceilings <= 0, a per-step energy ceiling
\* below p_max * step_dt, an interior duty envelope, a DEM altitude lookup.
Controllers ==
    { MainController,
      [MainController EXCEPT !.altitude_m = dem_altitude_m,
                             !.e_step_max_j = 12000,
                             !.eta_w = 0, !.eta_m = 0, !.eta_k = 0, !.eta_b = 0,
                             !.eta_p = Scale \div 5],
      [MainController EXCEPT !.eta_m = 1000 * Scale, !.eta_k = 1000 * Scale,
                             !.eta_w = 50 * Scale, !.eta_b = 50 * Scale,
                             !.eta_p = -(50 * Scale), !.eta_dw = -(50 * Scale),
                             !.k_ref_nb = 1],
      [MainController EXCEPT !.eta_m = -(1000 * Scale), !.eta_k = -Scale,
                             !.eta_w = -(50 * Scale), !.eta_b = -(50 * Scale),
                             !.eta_p = 50 * Scale, !.eta_dw = 50 * Scale],
      [MainController EXCEPT !.m_ref_kg = 0, !.k_ref_nb = -1, !.p_max_w = 0,
                             !.phi_dw_max = 0, !.e_step_max_j = 0,
                             !.eta_w = Scale \div 20],
      [MainController EXCEPT !.u_min = Scale \div 5, !.u_max = (4 * Scale) \div 5,
                             !.eta_m = 0, !.eta_k = 0, !.eta_b = 0,
                             !.eta_w = Scale \div 10, !.eta_p = Scale \div 2,
                             !.eta_dw = Scale \div 5],
      [MainController EXCEPT !.theta_green_amber = Scale,
                             !.theta_amber_red = Scale \div 2] }

\* node_canopy and node_school as main builds and populates them (lines 16-74):
\* canopy mass (40-28)*3*3600 = 129600e-9 kg, karma 3.0*5e8*mass = 194.4e3.
node_canopy ==
    [location |-> "Phoenix-Intersection-A", ecoimpact_score |-> (92 * Scale) \div 100,
     mass_kg |-> 129600, karma_bytes |-> 194,
     duty_cycle |-> Scale \div 2, power_w |-> 50, geo_weight |-> (80 * Scale) \div 100]
node_school ==
    [location |-> "Elementary-North", ecoimpact_score |-> (94 * Scale) \div 100,
     mass_kg |-> 32400, karma_bytes |-> 71,
     duty_cycle |-> (70 * Scale) \div 100, power_w |-> 35, geo_weight |-> Scale]

\* Rows the ingest collaborator can hand to the cycle: the two of main, and
\* variants at and beyond each guard's bounds.
NodeStates ==
    { node_canopy,
      node_school,
      [node_canopy EXCEPT !.ecoimpact_score = Scale \div 2],
      [node_canopy EXCEPT !.ecoimpact_score = (70 * Scale) \div 100,
                          !.power_w = 40, !.mass_kg = 0, !.karma_bytes = 0,
                          !.geo_weight = 0, !.duty_cycle = 0],
      [node_school EXCEPT !.mass_kg = 0, !.karma_bytes = 0],
      [node_school EXCEPT !.power_w = 151, !.duty_cycle = Scale],
      [node_school EXCEPT !.power_w = 150, !.ecoimpact_score = Scale,
                          !.geo_weight = (130 * Scale) \div 100],
      [node_school EXCEPT !.location = "Ridge-Top", !.power_w = -10,
                          !.duty_cycle = Scale \div 4],
      [node_canopy EXCEPT !.location = "Basin-Floor", !.power_w = 200,
                          !.ecoimpact_score = Scale + 1] }

\* main keeps two nodes: vec![node_canopy, node_school].
NNodes == 2

\* DW flux densities: main's 5.0e-7 (below the ceiling), the ceiling, above it.
PhiValues == {5, 10, 25}

NoUpdate == [idx |-> 0, before |-> node_canopy, res |-> "none"]

CorridorIdle ==
    /\ cfg = MainController
    /\ nodes = <<node_canopy, node_school>>
    /\ pc = "idle"
    /\ idx = 0
    /\ band = "Green"
    /\ phi_dw = 5
    /\ lastUpdate = NoUpdate

\* The state at main's line 121: controller built, nodes populated.
CorridorInit ==
    /\ cfg \in Controllers
    /\ nodes \in [1..NNodes -> NodeStates]
    /\ pc = "aggregate"
    /\ idx = 0
    /\ band = "Green"
    /\ phi_dw \in PhiValues
    /\ lastUpdate = NoUpdate

\* main lines 122-125: eco-load and band from the nodes, before the updates.
EcoLoadAndBand ==
    /\ prog = "corridor"
    /\ pc = "aggregate"
    /\ band' = classify(cfg, eco_load(cfg, nodes, Scale \div 2, Scale \div 2))
    /\ pc' = "update"
    /\ idx' = 1
    /\ UNCHANGED <<prog, cfg, nodes, phi_dw, lastUpdate, notCorridor>>

\* The Ok iteration with each node under the band of its own load.
UpdateNodeOk_own_band ==
    /\ prog = "corridor"
    /\ pc = "update"
    /\ idx <= Len(nodes)
    /\ LET own == classify(cfg, eco_load(cfg, <<nodes[idx]>>, Scale \div 2, Scale \div 2))
           r == update_node_duty(cfg, nodes[idx], own, phi_dw)
       IN  /\ r.res = "Ok"
           /\ nodes' = [nodes EXCEPT ![idx] = r.node]
           /\ lastUpdate' = [idx |-> idx, before |-> nodes[idx], res |-> r.res]
    /\ idx' = idx + 1
    /\ UNCHANGED <<prog, cfg, pc, band, phi_dw, notCorridor>>

\* main lines 132-134, an iteration whose update_node_duty returns Ok.
UpdateNodeOk ==
    /\ prog = "corridor"
    /\ pc = "update"
    /\ idx <= Len(nodes)
    /\ LET r == update_node_duty(cfg, nodes[idx], band, phi_dw)
       IN  /\ r.res = "Ok"
           /\ nodes' = [nodes EXCEPT ![idx] = r.node]
           /\ lastUpdate' = [idx |-> idx, before |-> nodes[idx], res |-> r.res]
    /\ idx' = idx + 1
    /\ UNCHANGED <<prog, cfg, pc, band, phi_dw, notCorridor>>

\* main line 133, an iteration whose update_node_duty returns Err: the `?`
\* leaves the loop and main returns the error.
UpdateNodeErr ==
    /\ prog = "corridor"
    /\ pc = "update"
    /\ idx <= Len(nodes)
    /\ LET r == update_node_duty(cfg, nodes[idx], band, phi_dw)
       IN  /\ r.res # "Ok"
           /\ nodes' = [nodes EXCEPT ![idx] = r.node]
           /\ lastUpdate' = [idx |-> idx, before |-> nodes[idx], res |-> r.res]
    /\ pc' = "failed"
    /\ UNCHANGED <<prog, cfg, idx, band, phi_dw, notCorridor>>

\* main lines 136-149: the loop is over, the control summary is emitted.
EmitSummary ==
    /\ prog = "corridor"
    /\ pc = "update"
    /\ idx > Len(nodes)
    /\ pc' = "done"
    /\ UNCHANGED <<prog, cfg, nodes, idx, band, phi_dw, lastUpdate, notCorridor>>

\* The caller runs the next control cycle on the nodes as the last one left
\* them, with the cycle's DW flux density.
NewCycle ==
    /\ prog = "corridor"
    /\ pc \in {"done", "failed"}
    /\ pc' = "aggregate"
    /\ idx' = 0
    /\ phi_dw' \in PhiValues
    /\ UNCHANGED <<prog, cfg, nodes, band, lastUpdate, notCorridor>>

CorridorNext ==
    \/ EcoLoadAndBand
    \/ UpdateNodeOk
    \/ UpdateNodeErr
    \/ EmitSummary
    \/ NewCycle


(***************************************************************************)
(* cybo_air_bee_guard/src/main.rs                                          *)
(***************************************************************************)

\* unit_to_kg_factor of the bee guard, as the ratio num / den in units of
\* 1e-9 kg/m^3 per reported unit; the molar mass is in 1e-3 kg/mol, so the
\* ppb factor M / (R * T) is 10 * M / (83145 * T) with R = 8.3145.
unit_to_kg_factor_guard(unit, temperature_k, molar_mass) ==
    CASE unit = "ug/m3" -> [num |-> 1, den |-> 1]
      [] unit = "mg/m3" -> [num |-> 1000, den |-> 1]
      [] unit = "ppb"   -> [num |-> 10 * molar_mass, den |-> 83145 * temperature_k]
      [] OTHER          -> [num |-> 0, den |-> 1]

\* location.contains("School") || contains("Orchard") || contains("Garden")
BeeLocations == {"Elementary-School-North", "Orchard-East", "Desert-Lot"}
contains_sensitive(location) ==
    location \in {"Elementary-School-North", "Orchard-East"}

\* The projection at the end of update_node_bee; a NaN passes both tests.
project01_bee(u) ==
    IF flt(u, Fin(0)) THEN Fin(0)
    ELSE IF fgt(u, Fin(Scale)) THEN Fin(Scale)
    ELSE u

\* update_node_bee: the node afterwards.  lambda, bee_weight and the gains are
\* fixed point, beta is in 1e8 bytes/kg, airflow in m^3/s, period in s.
update_node_bee(node, c) ==
    LET r       == node.row
        alpha   == unit_to_kg_factor_guard(r.unit, c.temperature_k, c.molar_mass)
        d_c     == Max(r.cin - r.cout, 0)
        mass    == (alpha.num * d_c * r.airflow_m3_per_s * r.period_s) \div alpha.den
        lambda_bee == IF r.bee_flag = 1
                      THEN FMul(r.lambda_hazard, r.bee_weight)
                      ELSE r.lambda_hazard
        karma   == (lambda_bee * r.beta_nb_per_kg * mass) \div (Scale * 10000)
        emf     == IF r.bee_flag = 1
                   THEN Min(FDiv(r.airflow_m3_per_s, 3), Scale)
                   ELSE 0
        w0      == Scale \div 2
                     + (IF r.bee_flag = 1 THEN (3 * Scale) \div 10 ELSE 0)
                     + (IF contains_sensitive(r.location) THEN Scale \div 5 ELSE 0)
        w_bee   == fsub(Fin(w0),
                        fmin(fdiv(Fin(emf), Fin(c.e_ref_bee)), Fin(Scale \div 2)))
        u       == fsub(fadd(fadd(fadd(node.duty_cycle,
                                       fmul(Fin(c.eta1), fdiv(Fin(mass), Fin(c.m_ref)))),
                                  fmul(Fin(c.eta2), fdiv(Fin(karma), Fin(c.k_ref)))),
                             fmul(Fin(c.eta3), w_bee)),
                        fmul(Fin(c.eta4), Fin(emf)))
    IN  [node EXCEPT !.mass_kg = mass, !.karma_bee = karma, !.emf_score = emf,
                     !.duty_cycle = project01_bee(u)]

\* The parameters of main (lines 180-190).
MainBeeCfg ==
    [temperature_k |-> 310, molar_mass |-> 48,
     m_ref |-> 1000, k_ref |-> 10000000, e_ref_bee |-> Scale,
     eta1 |-> Scale \div 10, eta2 |-> Scale \div 10,
     eta3 |-> Scale \div 5, eta4 |-> Scale \div 20]

\* Other parameters a caller can pass: small gains, gains of the other sign,
\* reference scales of zero.
BeeCfgs ==
    { MainBeeCfg,
      [MainBeeCfg EXCEPT !.eta1 = 0, !.eta2 = 0, !.eta3 = Scale \div 10,
                         !.eta4 = Scale \div 2],
      [MainBeeCfg EXCEPT !.eta1 = -Scale, !.eta3 = -Scale, !.eta4 = -(Scale \div 10)],
      [MainBeeCfg EXCEPT !.e_ref_bee = 0, !.k_ref = 1, !.eta3 = Scale \div 20],
      [MainBeeCfg EXCEPT !.m_ref = 0] }

\* Rows of the extended shard (parse_csv_row): concentrations in the row's unit.
BeeRows ==
    { [location |-> "Elementary-School-North", cin |-> 40, cout |-> 28, unit |-> "ug/m3",
       airflow_m3_per_s |-> 3, period_s |-> 3600, lambda_hazard |-> 3 * Scale,
       beta_nb_per_kg |-> 5, bee_flag |-> 1, bee_weight |-> (3 * Scale) \div 2],
      [location |-> "Desert-Lot", cin |-> 10, cout |-> 20, unit |-> "ug/m3",
       airflow_m3_per_s |-> 1, period_s |-> 60, lambda_hazard |-> 2 * Scale,
       beta_nb_per_kg |-> 5, bee_flag |-> 0, bee_weight |-> Scale],
      [location |-> "Orchard-East", cin |-> 30, cout |-> 18, unit |-> "ugm3",
       airflow_m3_per_s |-> 6, period_s |-> 10, lambda_hazard |-> 4 * Scale,
       beta_nb_per_kg |-> 5, bee_flag |-> 1, bee_weight |-> 2 * Scale],
      [location |-> "Desert-Lot", cin |-> 80, cout |-> 20, unit |-> "ppb",
       airflow_m3_per_s |-> 2, period_s |-> 3600, lambda_hazard |-> 3 * Scale,
       beta_nb_per_kg |-> 4, bee_flag |-> 0, bee_weight |-> Scale],
      [location |-> "Orchard-East", cin |-> 2, cout |-> 1, unit |-> "mg/m3",
       airflow_m3_per_s |-> 1, period_s |-> 10, lambda_hazard |-> Scale,
       beta_nb_per_kg |-> 3, bee_flag |-> 1, bee_weight |-> Scale] }

\* main lines 170-176: a node as pushed for a parsed row.
NewBeeNode(row) ==
    [row |-> row, mass_kg |-> 0, karma_bee |-> 0, duty_cycle |-> Fin(0), emf_score |-> 0]

\* The most rows a shard holds here.
MaxBeeNodes == 2

BeeIdle ==
    /\ beeCfg = MainBeeCfg
    /\ beeNodes = << >>
    /\ beePc = "idle"
    /\ beeIdx = 0

\* The state at main's line 192: the shard parsed, every duty cycle 0.0.
BeeInit ==
    /\ beeCfg \in BeeCfgs
    /\ \E n \in 1..MaxBeeNodes :
         \E rows \in [1..n -> BeeRows] :
            beeNodes = [i \in 1..n |-> NewBeeNode(rows[i])]
    /\ beePc = "update"
    /\ beeIdx = 1

\* main lines 193-206: one iteration of the update loop.
BeeUpdateNode ==
    /\ prog = "bee_guard"
    /\ beePc = "update"
    /\ beeIdx <= Len(beeNodes)
    /\ beeNodes' = [beeNodes EXCEPT ![beeIdx] = update_node_bee(beeNodes[beeIdx], beeCfg)]
    /\ beeIdx' = beeIdx + 1
    /\ UNCHANGED <<prog, notBee, beeCfg, beePc>>

\* main lines 208-221: the loop is over, the nodes are printed.
BeePrint ==
    /\ prog = "bee_guard"
    /\ beePc = "update"
    /\ beeIdx > Len(beeNodes)
    /\ beePc' = "done"
    /\ UNCHANGED <<prog, notBee, beeCfg, beeNodes, beeIdx>>

\* "Single update step; in deployment, this runs in a loop" (line 192).
BeeNextStep ==
    /\ prog = "bee_guard"
    /\ beePc = "done"
    /\ beePc' = "update"
    /\ beeIdx' = 1
    /\ UNCHANGED <<prog, notBee, beeCfg, beeNodes>>

BeeNext ==
    \/ BeeUpdateNode
    \/ BeePrint
    \/ BeeNextStep

(***************************************************************************)
(* particles/cyboair_microspace_kernel.rs                                  *)
(***************************************************************************)

\* The body of step_node's loop for one row: <<m_band, k>>.  Concentrations
\* are in 1e-9 kg/m^3, q in m^3/s, area in m^2, dt in s, so m and m_band are in
\* 1e-9 kg; beta_band and lambda_hazard are fixed point, beta_nb_per_kg is in
\* 1e8 bytes/kg and k in 1e3 bytes.  area * dt is an integer here, so
\* (area * dt).max(1e-6) is area * dt when that is >= 1 and 1e-6 otherwise.
step_row(r) ==
    LET m  == (r.cin - r.cout) * r.q * r.dt
        ad == r.area * r.dt
        j  == IF ad >= 1 THEN [num |-> m, den |-> ad]
                         ELSE [num |-> m * 1000000, den |-> 1]
        m_band == (j.num * r.area * r.beta_band * r.dt) \div (j.den * Scale)
        k  == (r.beta_nb_per_kg * r.lambda_hazard * m_band) \div (Scale * 10000)
    IN  <<m_band, k>>

RECURSIVE step_totals(_, _)
step_totals(rows, n) ==
    IF n = 0 THEN <<0, 0>>
    ELSE LET t == step_totals(rows, n - 1)
             x == step_row(rows[n])
         IN  <<t[1] + x[1], t[2] + x[2]>>

\* The two tests at the end of step_node.
project01_micro(u_next) ==
    LET u1 == IF u_next < 0 THEN 0 ELSE u_next
    IN  IF u1 > Scale THEN Scale ELSE u1

\* step_node: gamma_mass is fixed point per 1e-9 kg, eta_cost fixed point per W.
step_node(rows, u_k, p_watts, eta_cost, gamma_mass) ==
    LET t      == step_totals(rows, Len(rows))
        grad   == gamma_mass * t[1] - eta_cost * p_watts
        u_next == u_k + grad
    IN  [m_removed_kg |-> t[1], nk_bytes |-> t[2], ecoimpact_score |-> t[2],
         duty_next |-> project01_micro(u_next)]

QpuRows ==
    { [cin |-> 40, cout |-> 28, q |-> 3, area |-> 2, beta_band |-> Scale, dt |-> 2,
       lambda_hazard |-> 3 * Scale, beta_nb_per_kg |-> 5],
      [cin |-> 18, cout |-> 30, q |-> 1, area |-> 1, beta_band |-> Scale \div 2, dt |-> 1,
       lambda_hazard |-> 4 * Scale, beta_nb_per_kg |-> 5],
      [cin |-> 5, cout |-> 1, q |-> 2, area |-> 0, beta_band |-> Scale, dt |-> 3,
       lambda_hazard |-> Scale, beta_nb_per_kg |-> 2] }

\* The most rows of one step_node call here.
MaxRows == 2

MicroInputs ==
    { [rows |-> rs, p_watts |-> p, eta_cost |-> e, gamma_mass |-> g] :
        rs \in UNION { [1..n -> QpuRows] : n \in 0..MaxRows },
        p \in {0, 50}, e \in {-1, 1}, g \in {-Scale, 0, 1} }

NoTelemetry ==
    [m_removed_kg |-> 0, nk_bytes |-> 0, ecoimpact_score |-> 0, duty_next |-> 0]

MicroIdle ==
    /\ microIn = [rows |-> << >>, p_watts |-> 0, eta_cost |-> 0, gamma_mass |-> 0]
    /\ microU = 0
    /\ microTel = NoTelemetry

MicroInit ==
    /\ microIn \in MicroInputs
    /\ microU \in {0, Scale \div 2, Scale}
    /\ microTel = NoTelemetry

\* A call of step_node; the caller takes duty_next as the node's next u_k.
MicroStep ==
    /\ prog = "microspace"
    /\ LET t == step_node(microIn.rows, microU, microIn.p_watts,
                          microIn.eta_cost, microIn.gamma_mass)
       IN  /\ microTel' = t
           /\ microU' = t.duty_next
    /\ UNCHANGED <<prog, notMicro, microIn>>

\* The next window's rows and power reading arrive.
MicroNewRows ==
    /\ prog = "microspace"
    /\ microTel # NoTelemetry
    /\ \E i \in MicroInputs :
         /\ i.eta_cost = microIn.eta_cost
         /\ i.gamma_mass = microIn.gamma_mass
         /\ microIn' = i
    /\ UNCHANGED <<prog, notMicro, microU, microTel>>

MicroNext ==
    \/ MicroStep
    \/ MicroNewRows

(***************************************************************************)
(* cybernet/src/bee/predicates.rs: BeeAdmissible                           *)
(***************************************************************************)

\* row.iter().zip(vec_x.iter()).map(|(a, v)| a * v).sum(): the dot product over
\* the shorter of the two.  Coefficients and components are fixed point, so
\* the sum is in units of 1 / Scale^2.
RECURSIVE zip_dot(_, _, _)
zip_dot(row, x, n) ==
    IF n = 0 THEN 0 ELSE row[n] * x[n] + zip_dot(row, x, n - 1)

\* the vector is_inside_polytope builds from the stressor state
stressor_vec(x) ==
    <<x.hq_pest, x.h_rf, x.h_poll, x.d_h_bio, x.varroa_per_100, x.d_thive_c,
      Scale - x.q_forage>>

\* BeeAdmissible::is_inside_polytope: p.a.iter().zip(p.b.iter()) pairs the rows
\* with the bounds up to the shorter of the two.
is_inside_polytope(x, p) ==
    LET vec_x == stressor_vec(x)
    IN  \A i \in 1..Min(Len(p.a), Len(p.b)) :
            ~(zip_dot(p.a[i], vec_x, Min(Len(p.a[i]), Len(vec_x))) > p.b[i] * Scale)

\* is_bee_admissible with the trust floor not consulted.
is_bee_admissible_no_floor(x, p, kappa) ==
    is_inside_polytope(x, p)

\* BeeAdmissible::is_bee_admissible
is_bee_admissible(x, p, kappa) ==
    is_inside_polytope(x, p) /\ kappa >= p.kappa_min

\* Unit rows e_1 .. e_7 and the row of ones.
UnitRow(i) == [j \in 1..7 |-> IF j = i THEN Scale ELSE 0]
OnesRow == [j \in 1..7 |-> Scale]

\* Corridor polytopes: a box (each stressor <= 1), one budget row over the sum
\* with a trust floor, rows of mixed sign, and one whose a and b differ in
\* length and whose second row is short.
BeePolytopes ==
    { [a |-> [i \in 1..7 |-> UnitRow(i)], b |-> [i \in 1..7 |-> Scale],
       kappa_min |-> 0],
      [a |-> <<OnesRow>>, b |-> <<3 * Scale>>, kappa_min |-> Scale \div 2],
      [a |-> << <<Scale, -Scale, 0, 0, 0, 0, 2 * Scale>>,
                <<0, 0, -Scale, 0, Scale \div 2, 0, 0>> >>,
       b |-> <<Scale \div 2, 0>>, kappa_min |-> (4 * Scale) \div 5],
      [a |-> << UnitRow(1), <<0, Scale, Scale>>, UnitRow(7) >>,
       b |-> <<Scale, Scale>>, kappa_min |-> Scale \div 5] }

StressorValues == {0, Scale \div 2, Scale + 1}

StressorStates ==
    [hq_pest : StressorValues, h_rf : StressorValues, h_poll : StressorValues,
     d_h_bio : {0, Scale + 1}, varroa_per_100 : {0, Scale \div 2},
     d_thive_c : {0, Scale + 1}, q_forage : {0, Scale \div 2, Scale}]

KarmaValues == {0, Scale \div 5, Scale \div 2, (4 * Scale) \div 5, Scale}

AdmIdle ==
    /\ admIn = [x |-> [hq_pest |-> 0, h_rf |-> 0, h_poll |-> 0, d_h_bio |-> 0,
                       varroa_per_100 |-> 0, d_thive_c |-> 0, q_forage |-> Scale],
                p |-> [a |-> << >>, b |-> << >>, kappa_min |-> 0],
                kappa |-> Scale]
    /\ admOut = [called |-> FALSE, res |-> FALSE]

\* An implementor of BeeAdmissible: a stressor state, a corridor, a karma.
AdmInit ==
    /\ admIn \in [x : StressorStates, p : BeePolytopes, kappa : KarmaValues]
    /\ admOut = [called |-> FALSE, res |-> FALSE]

\* A call of is_bee_admissible on the agent.
CheckAdmissible ==
    /\ prog = "bee_predicates"
    /\ ~admOut.called
    /\ admOut' = [called |-> TRUE,
                  res |-> is_bee_admissible(admIn.x, admIn.p, admIn.kappa)]
    /\ UNCHANGED <<prog, notAdm, admIn>>

\* The agent's stressor state is observed again.
ObserveStressors ==
    /\ prog = "bee_predicates"
    /\ admOut.called
    /\ \E x \in StressorStates :
          /\ x.d_h_bio = admIn.x.d_h_bio
          /\ x.varroa_per_100 = admIn.x.varroa_per_100
          /\ x.d_thive_c = admIn.x.d_thive_c
          /\ x.q_forage = admIn.x.q_forage
          /\ admIn' = [admIn EXCEPT !.x = x]
    /\ admOut' = [called |-> FALSE, res |-> FALSE]
    /\ UNCHANGED <<prog, notAdm>>

AdmNext ==
    \/ CheckAdmissible
    \/ ObserveStressors

(***************************************************************************)
(* cyboair-bee-karma/src/lib.rs                                            *)
(***************************************************************************)

\* A LinearConstraint a.x + b <= 0: a and x are fixed point (distance in m,
\* ozone in ug/m^3, EMF in V/m, duty cycle), so a.x is in 1 / Scale^2 and b is
\* brought to that unit.
constraint_value(c, x) ==
    c.a[1] * x[1] + c.a[2] * x[2] + c.a[3] * x[3] + c.a[4] * x[4] + c.b * Scale

\* BeerightsPolytope::default_conservative
default_conservative ==
    << [a |-> <<-Scale, 0, 0, 0>>, b |-> 50 * Scale],
       [a |-> <<0, Scale, 0, 0>>,  b |-> -(80 * Scale)],
       [a |-> <<0, 0, Scale, 0>>,  b |-> -Scale],
       [a |-> <<0, 0, 0, Scale>>,  b |-> -((3 * Scale) \div 10)] >>

\* BeerightsPolytope::is_inside
is_inside(constraints, x, tol) ==
    \A i \in 1..Len(constraints) : constraint_value(constraints[i], x) <= tol * Scale

\* f64::clamp(0.0, 1.0)
clamp01(v) == IF v < 0 THEN 0 ELSE IF v > Scale THEN Scale ELSE v

\* The tolerance enforce_bee_rights passes, 1e-9: below one step of the grid,
\* on which a constraint value is <= 1e-9 exactly when it is <= 0.
EnforceTol == 0

\* enforce_bee_rights halving the duty cycle of an inadmissible vector.
enforce_bee_rights_derate(env, proposed_duty_cycle, constraints) ==
    LET dc_clamped == clamp01(proposed_duty_cycle)
        x == <<env.distance_from_hive_m, env.o3_ugm3, env.emf_vpm, dc_clamped>>
    IN  IF is_inside(constraints, x, EnforceTol)
        THEN <<TRUE, dc_clamped>>
        ELSE <<FALSE, dc_clamped \div 2>>

\* enforce_bee_rights
enforce_bee_rights(env, proposed_duty_cycle, constraints) ==
    LET dc_clamped == clamp01(proposed_duty_cycle)
        x == <<env.distance_from_hive_m, env.o3_ugm3, env.emf_vpm, dc_clamped>>
    IN  IF is_inside(constraints, x, EnforceTol)
        THEN <<TRUE, dc_clamped>>
        ELSE <<FALSE, 0>>

\* Polytopes: the conservative default, a loose box, rows of mixed terms (duty
\* allowed to grow with distance), and no constraint at all.
RightsPolytopes ==
    { default_conservative,
      << [a |-> <<-Scale, 0, 0, 0>>, b |-> 0],
         [a |-> <<0, 0, 0, Scale>>,  b |-> -Scale] >>,
      << [a |-> <<-1, 0, 0, Scale>>, b |-> 0],
         [a |-> <<0, 1, 50 * Scale, 0>>, b |-> -(2 * Scale)] >>,
      << >> }

\* Samples around the default bounds: distance 50 m, ozone 80, EMF 1.0.
EnvSamples ==
    [distance_from_hive_m : {10 * Scale, 50 * Scale, 60 * Scale, 100 * Scale},
     o3_ugm3 : {40 * Scale, 80 * Scale, 80 * Scale + 1, 120 * Scale},
     emf_vpm : {Scale \div 5, Scale, Scale + 1, 2 * Scale}]

ProposedDuties ==
    {-(Scale \div 10), 0, Scale \div 10, Scale \div 5, (3 * Scale) \div 10,
     (3 * Scale) \div 10 + 1, (4 * Scale) \div 5, Scale, Scale + Scale \div 2}

\* Tolerances of an is_inside call, in fixed point.
Tolerances == {0, 1}

RightsIdle ==
    /\ rightsIn = [env |-> [distance_from_hive_m |-> 0, o3_ugm3 |-> 0, emf_vpm |-> 0],
                   duty |-> 0, polytope |-> << >>, tol |-> 0]
    /\ rightsOut = [call |-> "none"]

RightsInit ==
    /\ rightsIn \in [env : EnvSamples, duty : ProposedDuties,
                     polytope : RightsPolytopes, tol : Tolerances]
    /\ rightsOut = [call |-> "none"]

\* A call of is_inside on the vector (distance, ozone, EMF, duty) as given.
CallIsInside ==
    /\ prog = "bee_karma"
    /\ LET x == <<rightsIn.env.distance_from_hive_m, rightsIn.env.o3_ugm3,
                  rightsIn.env.emf_vpm, rightsIn.duty>>
       IN  rightsOut' = [call |-> "is_inside", x |-> x,
                         res |-> is_inside(rightsIn.polytope, x, rightsIn.tol)]
    /\ UNCHANGED <<prog, notRights, rightsIn>>

\* A call of enforce_bee_rights before actuating.
CallEnforce ==
    /\ prog = "bee_karma"
    /\ LET r == enforce_bee_rights(rightsIn.env, rightsIn.duty, rightsIn.polytope)
       IN  rightsOut' = [call |-> "enforce", ok |-> r[1], dc |-> r[2]]
    /\ UNCHANGED <<prog, notRights, rightsIn>>

RightsNext ==
    \/ CallIsInside
    \/ CallEnforce

(***************************************************************************)
(* cybo-corridor-core/src/lib.rs: envelope, invariant, hysteresis,         *)
(* escalation.  The three indices of a BeeBand and v_safe are fixed point; *)
(* the residual, a sum of squares, is in units of 1 / Scale^2.  The        *)
(* factors 0.85 and 0.9 are compared exactly (100 hb > 85 eco,             *)
(* 10 hb > 9 Scale).                                                       *)
(***************************************************************************)

\* residual squaring the indices without the floor at 0.
residual_unfloored(inv, sample) ==
    LET hb == sample.band.host_budget
        eco == sample.band.eco_band
        dw == sample.band.dw_ceiling
    IN  hb * hb + eco * eco + dw * dw

\* BeeCorridorInvariant::residual
residual(inv, sample) ==
    LET hb == Max(sample.band.host_budget, 0)
        eco == Max(sample.band.eco_band, 0)
        dw == Max(sample.band.dw_ceiling, 0)
    IN  hb * hb + eco * eco + dw * dw

\* BeeCorridorInvariant::holds
holds(inv, sample) == residual(inv, sample) <= inv.v_safe * Scale

\* HostBudgetEnvelope::is_within_envelope
is_within_envelope(env, inv) ==
    /\ env.band.host_budget <= Scale
    /\ env.band.eco_band <= Scale
    /\ env.band.dw_ceiling <= Scale
    /\ holds(inv, env)

\* next_state with the envelope gate left out.
next_state_no_gate(current, proposed, inv) ==
    LET env == proposed.envelope
        hb == env.band.host_budget
        eco == env.band.eco_band
    IN  IF eco <= 0 THEN current
        ELSE IF 100 * hb > 85 * eco THEN current
        ELSE proposed

\* next_state clamping the indices of an accepted proposal into [0,1].
next_state_clamped(current, proposed, inv) ==
    LET env == proposed.envelope
        hb == env.band.host_budget
        eco == env.band.eco_band
    IN  IF eco <= 0 THEN current
        ELSE IF 100 * hb > 85 * eco THEN current
        ELSE IF ~is_within_envelope(env, inv) THEN current
        ELSE [proposed EXCEPT !.envelope.band.host_budget = Max(0, Min(Scale, hb))]

\* next_state moving half way to a proposal it does not accept.
next_state_blend(current, proposed, inv) ==
    LET env == proposed.envelope
        hb == env.band.host_budget
        eco == env.band.eco_band
        half == [current EXCEPT !.envelope.band.host_budget =
                    (current.envelope.band.host_budget + hb) \div 2]
    IN  IF eco <= 0 THEN current
        ELSE IF 100 * hb > 85 * eco THEN half
        ELSE IF ~is_within_envelope(env, inv) THEN current
        ELSE proposed

\* next_state letting a proposal with an eco-band index of 0 through.
next_state_eco_nonneg(current, proposed, inv) ==
    LET env == proposed.envelope
        hb == env.band.host_budget
        eco == env.band.eco_band
    IN  IF eco < 0 THEN current
        ELSE IF 100 * hb > 85 * eco THEN current
        ELSE IF ~is_within_envelope(env, inv) THEN current
        ELSE proposed

\* next_state without the host_budget <= 0.85 * eco_band test.
next_state_no_cross(current, proposed, inv) ==
    LET env == proposed.envelope
        eco == env.band.eco_band
    IN  IF eco <= 0 THEN current
        ELSE IF ~is_within_envelope(env, inv) THEN current
        ELSE proposed

\* BeeHysteresisRule::next_state
next_state(current, proposed, inv) ==
    LET env == proposed.envelope
        hb == env.band.host_budget
        eco == env.band.eco_band
    IN  IF eco <= 0 THEN current
        ELSE IF 100 * hb > 85 * eco THEN current
        ELSE IF ~is_within_envelope(env, inv) THEN current
        ELSE proposed

\* BeeEscalationPolicy::next_state
escalation_next_state(current, proposed, inv) == next_state(current, proposed, inv)

\* classify_trigger testing the thermal drift first.
classify_trigger_drift_first(state) ==
    LET hb == state.envelope.band.host_budget
        eco == state.envelope.band.eco_band
    IN  IF 100 * hb > 85 * eco THEN "BeeThermalDrift"
        ELSE IF 10 * hb > 9 * Scale THEN "BeeColonyStress"
        ELSE "None"

\* BeeEscalationPolicy::classify_trigger
classify_trigger(state) ==
    LET hb == state.envelope.band.host_budget
        eco == state.envelope.band.eco_band
    IN  IF 10 * hb > 9 * Scale THEN "BeeColonyStress"
        ELSE IF 100 * hb > 85 * eco THEN "BeeThermalDrift"
        ELSE "None"

\* Index values around the thresholds: 0.51 = 0.85 * 0.6, 0.85 = 0.85 * 1.0,
\* 0.9, 1.0, and values outside [0,1].
HostBudgetValues ==
    {-(Scale \div 10), 0, (2 * Scale) \div 5, (51 * Scale) \div 100,
     (51 * Scale) \div 100 + 1, (9 * Scale) \div 10, (19 * Scale) \div 20, Scale + 1}
EcoBandValues == {-(Scale \div 10), 0, (3 * Scale) \div 5, Scale, Scale + Scale \div 5}
DwCeilingValues == {0, (3 * Scale) \div 10, Scale + 1}

BeeBands ==
    [family : {"BeeThermal"}, host_budget : HostBudgetValues,
     eco_band : EcoBandValues, dw_ceiling : DwCeilingValues]

\* A state's hb_score and the trace id of its envelope vary together.
BeeStates ==
    { [envelope |-> [band |-> b, trace_id |-> t.id], hb_score |-> t.score] :
        b \in BeeBands,
        t \in { [id |-> 0, score |-> (49 * Scale) \div 50],
                [id |-> 1, score |-> (9 * Scale) \div 10] } }

\* The current state of bee_hysteresis_clamps_unsafe_state.
state_current ==
    [envelope |-> [band |-> [family |-> "BeeThermal",
                             host_budget |-> (2 * Scale) \div 5,
                             eco_band |-> (3 * Scale) \div 5,
                             dw_ceiling |-> (3 * Scale) \div 10],
                   trace_id |-> 0],
     hb_score |-> (49 * Scale) \div 50]

\* Current states a controller may start from: the one of the test, one that
\* is over the 0.85 line, one below zero, one with a zero eco band.
InitialBeeStates ==
    { state_current,
      [state_current EXCEPT !.envelope.band.host_budget = (19 * Scale) \div 20],
      [state_current EXCEPT !.envelope.band.host_budget = -(Scale \div 10)],
      [state_current EXCEPT !.envelope.band.host_budget = 0,
                            !.envelope.band.eco_band = 0,
                            !.envelope.band.dw_ceiling = 0] }

\* v_safe: 0.5, 1.0 and the 10.0 of the test.
Invariants == {[v_safe |-> Scale \div 2], [v_safe |-> Scale], [v_safe |-> 10 * Scale]}

NoCall == [call |-> "none"]

HysIdle ==
    /\ hysCur = state_current
    /\ hysProp = state_current
    /\ hysInv = [v_safe |-> Scale]
    /\ hysPc = "off"
    /\ hysOut = NoCall

HysInit ==
    /\ hysCur \in InitialBeeStates
    /\ hysProp = hysCur
    /\ hysInv \in Invariants
    /\ hysPc = "idle"
    /\ hysOut = NoCall

\* The controller proposes a state.
Propose ==
    /\ prog = "corridor_core"
    /\ hysPc = "idle"
    /\ hysProp' \in BeeStates
    /\ hysPc' = "proposed"
    /\ UNCHANGED <<prog, notHys, hysCur, hysInv, hysOut>>

\* rule.next_state(&current, &proposed, &inv) with the rule BeeHysteresisRule.
CallHysteresisRule ==
    /\ prog = "corridor_core"
    /\ hysPc = "proposed"
    /\ hysOut' = [call |-> "next_state", rule |-> "BeeHysteresisRule",
                  next |-> next_state(hysCur, hysProp, hysInv)]
    /\ hysPc' = "returned"
    /\ UNCHANGED <<prog, notHys, hysCur, hysProp, hysInv>>

\* policy.next_state(&current, &proposed, &inv) with BeeEscalationPolicy.
CallEscalationPolicy ==
    /\ prog = "corridor_core"
    /\ hysPc = "proposed"
    /\ hysOut' = [call |-> "next_state", rule |-> "BeeEscalationPolicy",
                  next |-> escalation_next_state(hysCur, hysProp, hysInv)]
    /\ hysPc' = "returned"
    /\ UNCHANGED <<prog, notHys, hysCur, hysProp, hysInv>>

\* policy.classify_trigger(&proposed)
CallClassifyTrigger ==
    /\ prog = "corridor_core"
    /\ hysPc = "proposed"
    /\ hysOut' = [call |-> "classify_trigger", trigger |-> classify_trigger(hysProp)]
    /\ hysPc' = "returned"
    /\ UNCHANGED <<prog, notHys, hysCur, hysProp, hysInv>>

\* inv.residual(&env) and inv.holds(&env) on the envelope of the proposed
\* state, as bee_envelope_invariant_residual calls them.
CallResidual ==
    /\ prog = "corridor_core"
    /\ hysPc = "proposed"
    /\ hysOut' = [call |-> "residual",
                  res |-> residual(hysInv, hysProp.envelope),
                  holds |-> holds(hysInv, hysProp.envelope)]
    /\ hysPc' = "returned"
    /\ UNCHANGED <<prog, notHys, hysCur, hysProp, hysInv>>

\* The state next_state returned becomes the current state.
AdoptNext ==
    /\ prog = "corridor_core"
    /\ hysPc = "returned"
    /\ hysOut.call = "next_state"
    /\ hysCur' = hysOut.next
    /\ hysProp' = hysOut.next
    /\ hysPc' = "idle"
    /\ hysOut' = NoCall
    /\ UNCHANGED <<prog, notHys, hysInv>>

\* After a classification the controller goes on from its current state.
AfterClassify ==
    /\ prog = "corridor_core"
    /\ hysPc = "returned"
    /\ hysOut.call = "classify_trigger"
    /\ hysProp' = hysCur
    /\ hysPc' = "idle"
    /\ hysOut' = NoCall
    /\ UNCHANGED <<prog, notHys, hysCur, hysInv>>

\* After the residual is read the controller goes on from its current state.
AfterResidual ==
    /\ prog = "corridor_core"
    /\ hysPc = "returned"
    /\ hysOut.call = "residual"
    /\ hysProp' = hysCur
    /\ hysPc' = "idle"
    /\ hysOut' = NoCall
    /\ UNCHANGED <<prog, notHys, hysCur, hysInv>>

HysNext ==
    \/ Propose
    \/ CallHysteresisRule
    \/ CallEscalationPolicy
    \/ CallClassifyTrigger
    \/ CallResidual
    \/ AdoptNext
    \/ AfterClassify
    \/ AfterResidual

(***************************************************************************)
(* cybernet/src/bee: the liability ledger (liability.rs) and the karma     *)
(* update of BloodGated (predicates.rs).  Karma, harm scores, thresholds   *)
(* and the penalty scale are fixed point.                                  *)
(***************************************************************************)

\* The access tier of a karma k: 3 from 0.8, 2 from 0.6, 1 from 0.4, else 0.
tier_of(k) ==
    IF 5 * k >= 4 * Scale THEN 3
    ELSE IF 5 * k >= 3 * Scale THEN 2
    ELSE IF 5 * k >= 2 * Scale THEN 1
    ELSE 0

\* u8::saturating_sub(1)
saturating_sub1(level) == IF level = 0 THEN 0 ELSE level - 1

\* apply_liability_to_envelope going on to the karma update at the threshold.
apply_liability_no_return(env, harm, warn_threshold, downgrade_threshold, karma_penalty_scale) ==
    LET scored == [env EXCEPT !.predicted_harm_score = harm.predicted_harm,
                              !.realized_harm_score = harm.realized_harm]
        delta_over == harm.delta_liability - warn_threshold
        karma_delta == -FMul(karma_penalty_scale, delta_over)
        k == Max(0, env.kappa + karma_delta)
        level == tier_of(k)
    IN  [scored EXCEPT !.kappa = k,
                       !.blood_gate_level =
                           IF harm.delta_liability >= downgrade_threshold
                           THEN saturating_sub1(level) ELSE level]

\* apply_liability_to_envelope charging the whole liability, not its excess.
apply_liability_whole_delta(env, harm, warn_threshold, downgrade_threshold, karma_penalty_scale) ==
    LET scored == [env EXCEPT !.predicted_harm_score = harm.predicted_harm,
                              !.realized_harm_score = harm.realized_harm]
        karma_delta == -FMul(karma_penalty_scale, harm.delta_liability)
        k == Max(0, env.kappa + karma_delta)
        level == tier_of(k)
    IN  IF harm.delta_liability <= warn_threshold THEN scored
        ELSE [scored EXCEPT !.kappa = k,
                            !.blood_gate_level =
                                IF harm.delta_liability >= downgrade_threshold
                                THEN saturating_sub1(level) ELSE level]

\* apply_liability_to_envelope without the forced step down.
apply_liability_no_trip(env, harm, warn_threshold, downgrade_threshold, karma_penalty_scale) ==
    LET scored == [env EXCEPT !.predicted_harm_score = harm.predicted_harm,
                              !.realized_harm_score = harm.realized_harm]
        delta_over == harm.delta_liability - warn_threshold
        karma_delta == -FMul(karma_penalty_scale, delta_over)
        k == Max(0, env.kappa + karma_delta)
    IN  IF harm.delta_liability <= warn_threshold THEN scored
        ELSE [scored EXCEPT !.kappa = k, !.blood_gate_level = tier_of(k)]

\* apply_liability_to_envelope with a trip that takes two steps off the tier.
apply_liability_two_steps(env, harm, warn_threshold, downgrade_threshold, karma_penalty_scale) ==
    LET scored == [env EXCEPT !.predicted_harm_score = harm.predicted_harm,
                              !.realized_harm_score = harm.realized_harm]
        delta_over == harm.delta_liability - warn_threshold
        karma_delta == -FMul(karma_penalty_scale, delta_over)
        k == Max(0, env.kappa + karma_delta)
        level == tier_of(k)
    IN  IF harm.delta_liability <= warn_threshold THEN scored
        ELSE [scored EXCEPT !.kappa = k,
                            !.blood_gate_level =
                                IF harm.delta_liability >= downgrade_threshold
                                THEN saturating_sub1(saturating_sub1(level)) ELSE level]

\* apply_liability_to_envelope
apply_liability_to_envelope(env, harm, warn_threshold, downgrade_threshold, karma_penalty_scale) ==
    LET scored == [env EXCEPT !.predicted_harm_score = harm.predicted_harm,
                              !.realized_harm_score = harm.realized_harm]
        delta_over == harm.delta_liability - warn_threshold
        karma_delta == -FMul(karma_penalty_scale, delta_over)
        k == Max(0, env.kappa + karma_delta)
        level == tier_of(k)
    IN  IF harm.delta_liability <= warn_threshold THEN scored
        ELSE [scored EXCEPT !.kappa = k,
                            !.blood_gate_level =
                                IF harm.delta_liability >= downgrade_threshold
                                THEN saturating_sub1(level) ELSE level]

\* apply_karma_delta with a tier that does not come back up by itself.
apply_karma_delta_sticky(env, delta) ==
    LET k == Max(0, Min(Scale, env.kappa + delta))
    IN  [env EXCEPT !.kappa = k,
                    !.blood_gate_level = Min(env.blood_gate_level, tier_of(k))]

\* BloodGated::apply_karma_delta
apply_karma_delta(env, delta) ==
    LET k == Max(0, Min(Scale, env.kappa + delta))
    IN  [env EXCEPT !.kappa = k, !.blood_gate_level = tier_of(k)]

\* Karma and tier are public fields: an envelope may hold any pair of them.
LedgerKarmas ==
    {0, (2 * Scale) \div 5, Scale \div 2, (7 * Scale) \div 10, (9 * Scale) \div 10, Scale}
LedgerEnvelopes ==
    [kappa : LedgerKarmas, blood_gate_level : {0, 1, 2, 3},
     predicted_harm_score : {0}, realized_harm_score : {0}]

\* Harm aggregations: the predicted and the realized harm, and their
\* difference as the liability.
HarmLevels ==
    {0, Scale \div 10, Scale \div 5, (3 * Scale) \div 10, (3 * Scale) \div 5,
     Scale + Scale \div 5}
PredictedLevels == {0, Scale \div 5}
HarmAggregations ==
    { [predicted_harm |-> ph, realized_harm |-> rh, delta_liability |-> rh - ph] :
        ph \in PredictedLevels, rh \in HarmLevels }

\* The thresholds and the penalty scale of Scenario D: 0.05, 0.6, 1.0.
scenario_d_cfg ==
    [warn_threshold |-> Scale \div 20, downgrade_threshold |-> (3 * Scale) \div 5,
     karma_penalty_scale |-> Scale]

\* The three parameters are plain f64 arguments: any ordering of the two
\* thresholds and any sign of the scale can be passed.
LedgerCfgs ==
    { scenario_d_cfg,
      [warn_threshold |-> (3 * Scale) \div 10, downgrade_threshold |-> (3 * Scale) \div 5,
       karma_penalty_scale |-> -Scale],
      [warn_threshold |-> (3 * Scale) \div 10, downgrade_threshold |-> (3 * Scale) \div 5,
       karma_penalty_scale |-> Scale],
      [warn_threshold |-> 0, downgrade_threshold |-> 0,
       karma_penalty_scale |-> Scale \div 2],
      [warn_threshold |-> (3 * Scale) \div 10, downgrade_threshold |-> Scale \div 5,
       karma_penalty_scale |-> 2 * Scale] }

KarmaDeltas == {-(Scale \div 5), Scale \div 10, Scale \div 2}

NoHarm == [predicted_harm |-> 0, realized_harm |-> 0, delta_liability |-> 0]

LedIdle ==
    /\ ledEnv = [kappa |-> Scale, blood_gate_level |-> 3,
                 predicted_harm_score |-> 0, realized_harm_score |-> 0]
    /\ ledCfg = [warn_threshold |-> 0, downgrade_threshold |-> 0,
                 karma_penalty_scale |-> 0]
    /\ ledHarm = NoHarm
    /\ ledPc = "off"
    /\ ledBase = [kappa0 |-> Scale, penalties |-> 0]

LedInit ==
    /\ ledEnv \in LedgerEnvelopes
    /\ ledCfg \in LedgerCfgs
    /\ ledHarm = NoHarm
    /\ ledPc = "idle"
    /\ ledBase = [kappa0 |-> ledEnv.kappa, penalties |-> 0]

\* A reconciliation of the twin snapshots yields a HarmAggregation.
HarmAggregated ==
    /\ prog = "bee_ledger"
    /\ ledPc = "idle"
    /\ ledHarm' \in HarmAggregations
    /\ ledPc' = "aggregated"
    /\ UNCHANGED <<prog, notLed, ledEnv, ledCfg, ledBase>>

\* Karma beyond which the ledger is not followed further.
KappaCap == 2 * Scale

\* The penalties recorded in the history stop adding up here, beyond any
\* karma an envelope starts from.
PenaltyCap == 2 * Scale

\* The penalty karma_penalty_scale * delta_over of one call, 0 for a call that
\* returns early.
penalty_of(harm, c) ==
    IF harm.delta_liability <= c.warn_threshold THEN 0
    ELSE FMul(c.karma_penalty_scale, harm.delta_liability - c.warn_threshold)

\* apply_liability_to_envelope(&mut env, &harm, warn, downgrade, scale)
ApplyLiability ==
    /\ prog = "bee_ledger"
    /\ ledPc = "aggregated"
    /\ ledEnv.kappa <= KappaCap
    /\ ledEnv' = apply_liability_to_envelope(ledEnv, ledHarm, ledCfg.warn_threshold,
                     ledCfg.downgrade_threshold, ledCfg.karma_penalty_scale)
    /\ ledPc' = "applied"
    /\ ledBase' = [ledBase EXCEPT !.penalties =
                       Min(PenaltyCap, ledBase.penalties + penalty_of(ledHarm, ledCfg))]
    /\ UNCHANGED <<prog, notLed, ledCfg, ledHarm>>

\* The next reconciliation period begins.
NextPeriod ==
    /\ prog = "bee_ledger"
    /\ ledPc = "applied"
    /\ ledPc' = "idle"
    /\ UNCHANGED <<prog, notLed, ledEnv, ledCfg, ledHarm, ledBase>>

\* agent.apply_karma_delta(delta)
ApplyKarmaDelta ==
    /\ prog = "bee_ledger"
    /\ ledPc = "idle"
    /\ \E delta \in KarmaDeltas : ledEnv' = apply_karma_delta(ledEnv, delta)
    /\ ledBase' = [kappa0 |-> ledEnv'.kappa, penalties |-> 0]
    /\ UNCHANGED <<prog, notLed, ledCfg, ledHarm, ledPc>>

LedNext ==
    \/ HarmAggregated
    \/ ApplyLiability
    \/ NextPeriod
    \/ ApplyKarmaDelta

(***************************************************************************)
(* The physical quantity estimators: compute_mass_kg of                    *)
(* cyboair_corridor_safety/src/lib.rs and of eibon_core/src/lib.rs.        *)
(* Concentrations are in the row's unit, flow in m^3/s, period in s, mass  *)
(* in 1e-9 kg; a unit factor is the ratio num / den in 1e-9 kg/m^3 per     *)
(* reported unit, the molar mass in 1e-3 kg/mol.                           *)
(***************************************************************************)

\* unit_to_kg_factor of cyboair_corridor_safety
unit_to_kg_factor(unit, temperature_k, molar_mass) ==
    CASE unit = "ugm3" -> [num |-> 1, den |-> 1]
      [] unit = "mgm3" -> [num |-> 1000, den |-> 1]
      [] unit = "ppb"  -> [num |-> 10 * molar_mass, den |-> 83145 * temperature_k]
      [] OTHER         -> [num |-> 0, den |-> 1]

\* unit_to_kg_factor of eibon_core
unit_to_kg_factor_eibon(unit, temperature_k, molar_mass) ==
    CASE unit = "ug/m3" -> [num |-> 1, den |-> 1]
      [] unit = "mg/m3" -> [num |-> 1000, den |-> 1]
      [] unit = "ppb"   -> [num |-> 10 * molar_mass, den |-> 83145 * temperature_k]
      [] OTHER          -> [num |-> 0, den |-> 1]

\* unit_to_kg_factor of crates/cyboair-bee-guard: the ppb factor is
\* p * M / (R * T) with p = 101325 Pa.
unit_to_kg_factor_crates_guard(unit, temperature_k, molar_mass) ==
    CASE unit = "ug/m3" -> [num |-> 1, den |-> 1]
      [] unit = "mg/m3" -> [num |-> 1000, den |-> 1]
      [] unit = "ppb"   -> [num |-> 101325 * 10 * molar_mass, den |-> 83145 * temperature_k]
      [] OTHER          -> [num |-> 0, den |-> 1]

\* compute_mass_kg of cyboair_corridor_safety
compute_mass_kg(row, temperature_k, molar_mass) ==
    LET alpha == unit_to_kg_factor(row.unit, temperature_k, molar_mass)
        delta_c == Max(row.cin - row.cout, 0)
    IN  (alpha.num * delta_c * row.airflow_m3_per_s * row.period_s) \div alpha.den

\* compute_mass_kg of eibon_core
compute_mass_kg_eibon(row, temperature_k, molar_mass) ==
    LET alpha == unit_to_kg_factor_eibon(row.unit, temperature_k, molar_mass)
        delta_c == Max(row.cin - row.cout, 0)
    IN  (alpha.num * delta_c * row.airflow_m3_per_s * row.period_s) \div alpha.den

\* Rows of a shard: the unit tags of either copy and one neither knows,
\* concentrations falling, level and rising across the machine.
UnitTags == {"ugm3", "mgm3", "ug/m3", "mg/m3", "ppb", "ppm"}
ShardRows ==
    [unit : UnitTags, cin : {0, 18, 40}, cout : {0, 28, 30},
     airflow_m3_per_s : {0, 3}, period_s : {0, 3600}]

\* Temperature in K and molar mass in 1e-3 kg/mol (ozone, 48 g/mol).
Temperatures == {298, 310}
MolarMasses == {48}

EstIdle ==
    /\ estRow = [row |-> [unit |-> "ppm", cin |-> 0, cout |-> 0,
                          airflow_m3_per_s |-> 0, period_s |-> 0],
                 temperature_k |-> 298, molar_mass |-> 48]
    /\ estOut = NoCall

EstInit ==
    /\ estRow \in [row : ShardRows, temperature_k : Temperatures, molar_mass : MolarMasses]
    /\ estOut = NoCall

\* compute_mass_kg(&row, temperature_k, molar_mass) of the corridor library
CallComputeMass ==
    /\ prog = "estimators"
    /\ estOut' = [call |-> "compute_mass_kg", crate |-> "cyboair_corridor_safety",
                  mass_kg |-> compute_mass_kg(estRow.row, estRow.temperature_k,
                                              estRow.molar_mass)]
    /\ UNCHANGED <<prog, notEst, estRow>>

\* compute_mass_kg(&row, temperature_k, molar_mass) of eibon_core
CallComputeMassEibon ==
    /\ prog = "estimators"
    /\ estOut' = [call |-> "compute_mass_kg", crate |-> "eibon_core",
                  mass_kg |-> compute_mass_kg_eibon(estRow.row, estRow.temperature_k,
                                                    estRow.molar_mass)]
    /\ UNCHANGED <<prog, notEst, estRow>>

\* unit_to_kg_factor(&row.unit, temperature_k, molar_mass) of the corridor
\* library
CallUnitToKgFactor ==
    /\ prog = "estimators"
    /\ estOut' = [call |-> "unit_to_kg_factor", crate |-> "cyboair_corridor_safety",
                  factor |-> unit_to_kg_factor(estRow.row.unit, estRow.temperature_k,
                                               estRow.molar_mass)]
    /\ UNCHANGED <<prog, notEst, estRow>>

\* unit_to_kg_factor(&row.unit, temperature_k, molar_mass) of eibon_core
CallUnitToKgFactorEibon ==
    /\ prog = "estimators"
    /\ estOut' = [call |-> "unit_to_kg_factor", crate |-> "eibon_core",
                  factor |-> unit_to_kg_factor_eibon(estRow.row.unit, estRow.temperature_k,
                                                     estRow.molar_mass)]
    /\ UNCHANGED <<prog, notEst, estRow>>

\* unit_to_kg_factor(&row.unit, temperature_k, molar_mass) of
\* crates/cyboair-bee-guard
CallUnitToKgFactorCratesGuard ==
    /\ prog = "estimators"
    /\ estOut' = [call |-> "unit_to_kg_factor", crate |-> "cyboair-bee-guard",
                  factor |-> unit_to_kg_factor_crates_guard(estRow.row.unit,
                                 estRow.temperature_k, estRow.molar_mass)]
    /\ UNCHANGED <<prog, notEst, estRow>>

EstNext ==
    \/ CallComputeMass
    \/ CallComputeMassEibon
    \/ CallUnitToKgFactor
    \/ CallUnitToKgFactorEibon
    \/ CallUnitToKgFactorCratesGuard

(***************************************************************************)
(* The risk normalizers: compute_sbee of crates/cyboair-bee-guard and      *)
(* compute_ecoimpact of eibon_core.  alpha, the karma and the reference    *)
(* scale are fixed point (karma in bytes), and so is the exponent x.  The  *)
(* f64 result 1.0 - exp(x) is kept by its distance from 1: for x < 0,      *)
(* exp(x) lies in [2^-(n+1), 2^-n) with n = floor(-x / ln 2), and the f64  *)
(* subtraction rounds to exactly 1.0 once exp(x) is below half the spacing *)
(* of the doubles under 1.0, that is from n = 54 on.                       *)
(***************************************************************************)

\* The n from which 1.0 - exp(x) is the double 1.0: 2^-54 is half an ulp of
\* the doubles just below 1.0.
F64OneOrder == 54

\* floor(t / ln 2) of a fixed-point t >= 0, with ln 2 = 0.6931; a t beyond
\* 100 is far past the n that matters and is cut there.
order_of(t) == (Min(t, 100 * Scale) * 10000) \div (6931 * Scale)

\* 1.0 - f64::exp(x)
one_minus_exp(x) ==
    IF x = 0 THEN [k |-> "zero"]
    ELSE IF x > 0 THEN [k |-> "negative"]
    ELSE IF order_of(-x) >= F64OneOrder THEN [k |-> "one"]
    ELSE [k |-> "below_one", order |-> order_of(-x)]

\* compute_sbee with the exponent clamped to [-20, 20].
compute_sbee_clip20(bee_karma_tot, kref_bee, alpha) ==
    LET denom == Max(kref_bee, Scale)
        x == -((alpha * bee_karma_tot) \div denom)
        x_clip == Min(Max(x, -(20 * Scale)), 20 * Scale)
    IN  one_minus_exp(x_clip)

\* compute_sbee
compute_sbee(bee_karma_tot, kref_bee, alpha) ==
    LET denom == Max(kref_bee, Scale)
        x == -((alpha * bee_karma_tot) \div denom)
        x_clip == Min(Max(x, -(50 * Scale)), 50 * Scale)
    IN  one_minus_exp(x_clip)

\* compute_ecoimpact (mass_kg is not read)
compute_ecoimpact(mass_kg, karma_bytes, k0, alpha) ==
    IF k0 <= 0 THEN [k |-> "zero"]
    ELSE one_minus_exp(-((alpha * karma_bytes) \div k0))

\* alpha from 0.5 to 3; reference scales 0, 0.5, 1 and 100 bytes; aggregate
\* karma from 0 to 10000 bytes.
RiskAlphas == {Scale \div 2, Scale, 3 * Scale}
RiskRefs == {0, Scale \div 2, Scale, 100 * Scale}
KarmaTotals == {0, 1, Scale, 10 * Scale, 40 * Scale, 4000 * Scale, 10000 * Scale}

RiskIdle ==
    /\ riskIn = [alpha |-> Scale, kref |-> Scale, karma_total |-> 0]
    /\ riskOut = NoCall

RiskInit ==
    /\ riskIn \in [alpha : RiskAlphas, kref : RiskRefs, karma_total : KarmaTotals]
    /\ riskOut = NoCall

\* compute_sbee(bee_karma_tot, kref_bee, alpha)
CallComputeSbee ==
    /\ prog = "risk"
    /\ riskOut' = [call |-> "compute_sbee",
                   s |-> compute_sbee(riskIn.karma_total, riskIn.kref, riskIn.alpha)]
    /\ UNCHANGED <<prog, notRisk, riskIn>>

\* compute_ecoimpact(mass_kg, karma_bytes, k0, alpha)
CallComputeEcoimpact ==
    /\ prog = "risk"
    /\ riskOut' = [call |-> "compute_ecoimpact",
                   s |-> compute_ecoimpact(0, riskIn.karma_total, riskIn.kref, riskIn.alpha)]
    /\ UNCHANGED <<prog, notRisk, riskIn>>

RiskNext ==
    \/ CallComputeSbee
    \/ CallComputeEcoimpact

(***************************************************************************)
(* cyboair-governance: InputGuard and Verifier of lib.rs, InputGuard of    *)
(* guards.rs and Verifier of pipeline.rs.  A duty cycle is a float record, *)
(* since a deserialized f64 can be any value, NaN included.                *)
(***************************************************************************)

\* (0.0..=1.0).contains(&x): 0.0 <= x && x <= 1.0, false for NaN.
unit_range_contains(x) ==
    /\ x.k # "nan"
    /\ ~flt(x, Fin(0))
    /\ ~fgt(x, Fin(Scale))

\* InputGuard::validate_duty_cycle with the range taken as open.
validate_duty_cycle_open(duty_cycle) ==
    IF flt(Fin(0), duty_cycle) /\ flt(duty_cycle, Fin(Scale))
    THEN "Ok"
    ELSE "duty_cycle must be between 0.0 and 1.0"

\* lib.rs InputGuard::validate_duty_cycle
validate_duty_cycle(duty_cycle) ==
    IF unit_range_contains(duty_cycle)
    THEN "Ok"
    ELSE "duty_cycle must be between 0.0 and 1.0"

\* lib.rs Verifier::verify
verify(proposal) ==
    IF Len(proposal.node_ids) # Len(proposal.duty_cycles)
    THEN [approved |-> FALSE, message |-> "node_ids and duty_cycles length mismatch"]
    ELSE IF \E i \in 1..Len(proposal.duty_cycles) :
                validate_duty_cycle(proposal.duty_cycles[i]) # "Ok"
    THEN [approved |-> FALSE, message |-> "invalid duty_cycle"]
    ELSE [approved |-> TRUE, message |-> "proposal passed core governance checks"]

\* guards.rs InputGuard::validate_control_proposal
validate_control_proposal(p) ==
    IF p.node_id = "" THEN "node_id must not be empty"
    ELSE IF ~unit_range_contains(p.new_duty_cycle)
    THEN "new_duty_cycle must be between 0.0 and 1.0"
    ELSE IF p.horizon_seconds = 0 THEN "horizon_seconds must be > 0"
    ELSE "Ok"

\* pipeline.rs Verifier::verify
pipeline_verify(proposal) ==
    IF validate_control_proposal(proposal) # "Ok"
    THEN [approved |-> FALSE, message |-> "invalid proposal"]
    ELSE [approved |-> TRUE, message |-> "proposal passed governance checks (stub)"]

\* The longest node_ids and duty_cycles of a Proposal.
MaxProposalLen == 2

\* Duty cycles a payload can carry: those of test_input_guard_duty_cycle
\* (0.0, 0.5, 1.0, -0.1, 1.1), and NaN.
GovDutyCycles ==
    { Fin(0), Fin(Scale \div 2), Fin(Scale), Fin(-(Scale \div 10)),
      Fin(Scale + Scale \div 10), NaN }
GovNodeIds == {"", "node-1"}
SeqsUpTo(S, n) == UNION { [1..k -> S] : k \in 0..n }
Proposals ==
    [node_ids : SeqsUpTo(GovNodeIds, MaxProposalLen),
     duty_cycles : SeqsUpTo(GovDutyCycles, MaxProposalLen)]
ControlProposals ==
    [node_id : GovNodeIds, new_duty_cycle : GovDutyCycles, horizon_seconds : {0, 1, 3600}]

\* Generator::generate_proposal: empty node_ids and duty_cycles.
generate_proposal == [node_ids |-> <<>>, duty_cycles |-> <<>>]

NoVerdict == [call |-> "none", approved |-> FALSE, message |-> ""]

GovIdle ==
    /\ govProposal = generate_proposal
    /\ govControl = [node_id |-> "", new_duty_cycle |-> Fin(0), horizon_seconds |-> 0]
    /\ govOut = NoVerdict

GovInit ==
    /\ govProposal \in Proposals
    /\ govControl \in ControlProposals
    /\ govOut = NoVerdict

\* InputGuard::validate_duty_cycle(duty_cycle), on the duty of the control
\* proposal.
CallValidateDutyCycle ==
    /\ prog = "governance"
    /\ LET r == validate_duty_cycle(govControl.new_duty_cycle)
       IN  govOut' = [call |-> "validate_duty_cycle", approved |-> r = "Ok", message |-> r]
    /\ UNCHANGED <<prog, notGov, govProposal, govControl>>

\* lib.rs Verifier::verify(&proposal)
CallVerify ==
    /\ prog = "governance"
    /\ LET v == verify(govProposal)
       IN  govOut' = [call |-> "verify", approved |-> v.approved, message |-> v.message]
    /\ UNCHANGED <<prog, notGov, govProposal, govControl>>

\* pipeline.rs Verifier::verify(&proposal)
CallPipelineVerify ==
    /\ prog = "governance"
    /\ LET v == pipeline_verify(govControl)
       IN  govOut' = [call |-> "pipeline_verify", approved |-> v.approved,
                      message |-> v.message]
    /\ UNCHANGED <<prog, notGov, govProposal, govControl>>

GovNext ==
    \/ CallValidateDutyCycle
    \/ CallVerify
    \/ CallPipelineVerify

(***************************************************************************)
(* cybernet/src/bee/liability.rs in binary floating point.  kappa, the     *)
(* liabilities and the thresholds are f64 in the source; here a float has  *)
(* MantissaBits significant bits instead of 53 and is the integer number   *)
(* of its units of 1/FltOne, so that the rounding of every subtraction and *)
(* product is the one of IEEE-754: to nearest, ties to even.               *)
(***************************************************************************)
\* Significant bits of a float (53 in f64).
MantissaBits == 4

\* Calls of apply_liability_to_envelope in one behaviour.
MaxLedgerCalls == 3

RECURSIVE Pow2(_)
Pow2(n) == IF n = 0 THEN 1 ELSE 2 * Pow2(n - 1)

\* 1.0: values in [0.5, 1.0) are the multiples of UlpBelowOne.
FltOne == Pow2(MantissaBits + 2)
UlpBelowOne == FltOne \div Pow2(MantissaBits)

\* The spacing of the floats in the binade of a >= 0.
RECURSIVE Quantum(_)
Quantum(a) == IF a < Pow2(MantissaBits) THEN 1 ELSE 2 * Quantum(a \div 2)

\* The rational n/d rounded up in magnitude to a float.
round_up(n, d) ==
    LET a == Abs(n)
        step == Quantum(a \div d) * d
        lo == (a \div step) * step
        r == IF a = lo THEN lo ELSE lo + step
    IN  Sign(n) * (r \div d)

\* The rational n/d rounded to the nearest float, ties to the even one.
round_nearest(n, d) ==
    LET a == Abs(n)
        step == Quantum(a \div d) * d
        lo == (a \div step) * step
        rem == a - lo
        r == IF 2 * rem < step THEN lo
             ELSE IF 2 * rem > step THEN lo + step
             ELSE IF (lo \div step) % 2 = 0 THEN lo ELSE lo + step
    IN  Sign(n) * (r \div d)

\* The float of the decimal literal n/d.
f64_of(n, d) == round_nearest(n * FltOne, d)

\* a - b and a * b of two floats.
f64_sub(a, b) == round_nearest(a - b, 1)
f64_mul(a, b) == round_nearest(a * b, FltOne)

\* The tier of a float karma: the thresholds are the literals 0.8, 0.6, 0.4.
tier_of_f64(k) ==
    IF k >= f64_of(8, 10) THEN 3
    ELSE IF k >= f64_of(6, 10) THEN 2
    ELSE IF k >= f64_of(4, 10) THEN 1
    ELSE 0

\* The penalty apply_liability_to_envelope takes off kappa for a liability.
penalty_f64(delta_liability, c) ==
    IF delta_liability <= c.warn_threshold THEN 0
    ELSE f64_mul(c.karma_penalty_scale, f64_sub(delta_liability, c.warn_threshold))

\* apply_liability_to_envelope on floats: kappa and the tier of the envelope.
apply_liability_f64(env, delta_liability, c) ==
    LET delta_over == f64_sub(delta_liability, c.warn_threshold)
        karma_delta == -f64_mul(c.karma_penalty_scale, delta_over)
        k == Max(0, f64_sub(env.kappa, -karma_delta))
        level == tier_of_f64(k)
    IN  IF delta_liability <= c.warn_threshold THEN env
        ELSE [kappa |-> k,
              blood_gate_level |->
                  IF delta_liability >= c.downgrade_threshold
                  THEN saturating_sub1(level) ELSE level]

\* Karma, liabilities and configurations, written as decimal literals.
FltKappas == {f64_of(1, 1), f64_of(9, 10), f64_of(1, 2)}
FltDeltas == {f64_of(n, 20) : n \in {1, 2, 3, 4, 7, 9}}
FltConfigs ==
    [warn_threshold : {0, f64_of(1, 20), f64_of(3, 10)},
     downgrade_threshold : {f64_of(6, 10)},
     karma_penalty_scale : {f64_of(1, 1), f64_of(1, 2)}]

FltIdle ==
    /\ fltEnv = [kappa |-> 0, blood_gate_level |-> 0]
    /\ fltCfg = [warn_threshold |-> 0, downgrade_threshold |-> 0, karma_penalty_scale |-> 0]
    /\ fltHist = [kappa0 |-> 0, penalties |-> 0, calls |-> 0, rounded |-> FALSE]

FltInit ==
    /\ \E k \in FltKappas : fltEnv = [kappa |-> k, blood_gate_level |-> tier_of_f64(k)]
    /\ fltCfg \in FltConfigs
    /\ fltHist = [kappa0 |-> fltEnv.kappa, penalties |-> 0, calls |-> 0, rounded |-> FALSE]

\* One serialized ledger update: apply_liability_to_envelope with the
\* liability d.  The history keeps the exact sum of the penalties and
\* whether the subtraction from kappa was rounded.
FltApplyLiability ==
    /\ prog = "bee_ledger_f64"
    /\ fltHist.calls < MaxLedgerCalls
    /\ \E d \in FltDeltas :
          LET p == penalty_f64(d, fltCfg)
          IN  /\ fltEnv' = apply_liability_f64(fltEnv, d, fltCfg)
              /\ fltHist' = [fltHist EXCEPT
                     !.penalties = @ + p,
                     !.calls = @ + 1,
                     !.rounded = @ \/ f64_sub(fltEnv.kappa, p) # fltEnv.kappa - p]
    /\ UNCHANGED <<prog, notFlt, fltCfg>>

FltNext == FltApplyLiability

(***************************************************************************)
(* Specifications: one per program, and the duty-cycle updates together.   *)
(***************************************************************************)
\* The initial states of a behaviour that runs program p: p starts, the
\* others stay idle.
InitOf(p) ==
    /\ prog = p
    /\ IF p = "corridor" THEN CorridorInit ELSE CorridorIdle
    /\ IF p = "bee_guard" THEN BeeInit ELSE BeeIdle
    /\ IF p = "microspace" THEN MicroInit ELSE MicroIdle
    /\ IF p = "bee_predicates" THEN AdmInit ELSE AdmIdle
    /\ IF p = "bee_karma" THEN RightsInit ELSE RightsIdle
    /\ IF p = "corridor_core" THEN HysInit ELSE HysIdle
    /\ IF p = "bee_ledger" THEN LedInit ELSE LedIdle
    /\ IF p = "estimators" THEN EstInit ELSE EstIdle
    /\ IF p = "risk" THEN RiskInit ELSE RiskIdle
    /\ IF p = "governance" THEN GovInit ELSE GovIdle
    /\ IF p = "bee_ledger_f64" THEN FltInit ELSE FltIdle

InitCorridor == InitOf("corridor")
SpecCorridor == InitCorridor /\ [][CorridorNext]_vars

InitBee == InitOf("bee_guard")
SpecBee == InitBee /\ [][BeeNext]_vars

InitMicro == InitOf("microspace")
SpecMicro == InitMicro /\ [][MicroNext]_vars

\* The three duty-cycle update laws: a behaviour runs one of the programs.
InitDuty == InitCorridor \/ InitBee \/ InitMicro
NextDuty == CorridorNext \/ BeeNext \/ MicroNext
SpecDuty == InitDuty /\ [][NextDuty]_vars

InitAdm == InitOf("bee_predicates")
InitRights == InitOf("bee_karma")
SpecRights == InitRights /\ [][RightsNext]_vars

\* The two admissibility checkers: a behaviour runs one of the libraries.
InitPolytope == InitAdm \/ InitRights
NextPolytope == AdmNext \/ RightsNext
SpecPolytope == InitPolytope /\ [][NextPolytope]_vars

InitHysteresis == InitOf("corridor_core")
SpecHysteresis == InitHysteresis /\ [][HysNext]_vars

InitLedger == InitOf("bee_ledger")
SpecLedger == InitLedger /\ [][LedNext]_vars

InitEstimators == InitOf("estimators")
SpecEstimators == InitEstimators /\ [][EstNext]_vars

InitRisk == InitOf("risk")
SpecRisk == InitRisk /\ [][RiskNext]_vars

\* The ledger started from an envelope whose tier is the one derived from
\* its karma, with a penalty scale >= 0.
InitLedgerDerived ==
    /\ InitLedger
    /\ ledEnv.blood_gate_level = tier_of(ledEnv.kappa)
    /\ ledCfg.karma_penalty_scale >= 0
SpecLedgerDerived == InitLedgerDerived /\ [][LedNext]_vars

InitGovernance == InitOf("governance")
SpecGovernance == InitGovernance /\ [][GovNext]_vars

InitLedgerF64 == InitOf("bee_ledger_f64")
SpecLedgerF64 == InitLedgerF64 /\ [][FltNext]_vars

\* The mass routines: the two compute_mass_kg and step_node.
InitMass == InitEstimators \/ InitMicro
NextMass == EstNext \/ MicroNext
SpecMass == InitMass /\ [][NextMass]_vars

(***************************************************************************)
(* Properties.                                                             *)
(***************************************************************************)

\* A duty cycle of the bee guard (a float record) is a number in [0,1].
InUnitF(d) == d.k = "fin" /\ d.v \in 0..Scale

\* C1: every duty cycle committed by a duty-cycle update (update_node_duty,
\* update_node_bee, step_node) lies in [0,1], whatever the gains, reference
\* scales and inputs, so a node that starts in [0,1] stays in [0,1] through any
\* sequence of cycles, aborted ones included.
C1_DutyCycleInUnitInterval ==
    /\ prog = "corridor" =>
         \A i \in 1..Len(nodes) : nodes[i].duty_cycle \in 0..Scale
    /\ prog = "bee_guard" =>
         \A i \in 1..Len(beeNodes) : InUnitF(beeNodes[i].duty_cycle)
    /\ prog = "microspace" =>
         microU \in 0..Scale /\ microTel.duty_next \in 0..Scale

\* The part of C1 that holds: the corridor controller and the microspace
\* kernel keep every duty cycle in [0,1].
DutyInUnit_CorridorAndMicro ==
    /\ prog = "corridor" =>
         \A i \in 1..Len(nodes) : nodes[i].duty_cycle \in 0..Scale
    /\ prog = "microspace" =>
         microU \in 0..Scale /\ microTel.duty_next \in 0..Scale

\* The safety envelope as the specification states it: three closed intervals.
InEnvelope(c, node) ==
    /\ c.u_min <= node.duty_cycle /\ node.duty_cycle <= c.u_max
    /\ c.z_min_m <= c.altitude_m[node.location]
    /\ c.altitude_m[node.location] <= c.z_max_m
    /\ c.ecoimpact_min <= node.ecoimpact_score
    /\ node.ecoimpact_score <= c.ecoimpact_max

\* The host budget as the specification states it.
OverBudget(c, node) ==
    \/ node.power_w > c.p_max_w
    \/ node.power_w * c.step_dt_s > c.e_step_max_j

\* C2: when the envelope check or the host-budget check fails,
\* update_node_duty returns an error naming the violated guard (the envelope
\* first when both fail) and leaves every field of the node as it was.
C2_GuardFailureAbortsUpdate ==
    (prog = "corridor" /\ lastUpdate.idx # 0) =>
        LET b == lastUpdate.before
        IN  /\ ~InEnvelope(cfg, b) =>
                 /\ lastUpdate.res = "EnvelopeViolation"
                 /\ nodes[lastUpdate.idx] = b
            /\ (InEnvelope(cfg, b) /\ OverBudget(cfg, b)) =>
                 /\ lastUpdate.res = "HostBudgetExceeded"
                 /\ nodes[lastUpdate.idx] = b

\* An update that failed both guards and reported the envelope.
C2_BothGuardsFailed ==
    /\ prog = "corridor"
    /\ lastUpdate.idx # 0
    /\ ~InEnvelope(cfg, lastUpdate.before)
    /\ OverBudget(cfg, lastUpdate.before)
    /\ lastUpdate.res = "EnvelopeViolation"

\* Scenario B's envelope: duty [0,1], altitude [5,600] with the fixed 331 m
\* lookup, ecoimpact [0.7,1.0].
ScenarioBEnvelope(c) ==
    /\ c.u_min = 0 /\ c.u_max = Scale
    /\ c.z_min_m = 5 /\ c.z_max_m = 600
    /\ c.altitude_m = phoenix_altitude_m
    /\ c.ecoimpact_min = (70 * Scale) \div 100 /\ c.ecoimpact_max = Scale

\* C3: check_envelope passes exactly when duty cycle, looked-up altitude and
\* ecoimpact score each lie in their closed interval; with Scenario B's
\* envelope a node at duty 0.5 and ecoimpact 0.92 passes, and at ecoimpact 0.5
\* it fails and its duty cycle is held.
C3_EnvelopeIsClosedIntervals ==
    prog = "corridor" =>
        /\ \A i \in 1..Len(nodes) :
             (check_envelope(cfg, nodes[i]) = "Ok") <=> InEnvelope(cfg, nodes[i])
        /\ \A i \in 1..Len(nodes) :
             ( /\ ScenarioBEnvelope(cfg)
               /\ nodes[i].duty_cycle = Scale \div 2
               /\ nodes[i].ecoimpact_score = (92 * Scale) \div 100 )
             => check_envelope(cfg, nodes[i]) = "Ok"
        /\ ( /\ lastUpdate.idx # 0
             /\ ScenarioBEnvelope(cfg)
             /\ lastUpdate.before.duty_cycle = Scale \div 2
             /\ lastUpdate.before.ecoimpact_score = Scale \div 2 )
           => /\ lastUpdate.res = "EnvelopeViolation"
              /\ nodes[lastUpdate.idx].duty_cycle = Scale \div 2

\* Scenario B's failing half has happened: ecoimpact 0.5, the update refused
\* and the duty cycle still 0.5.
C3_ScenarioBHeld ==
    /\ prog = "corridor"
    /\ lastUpdate.idx # 0
    /\ ScenarioBEnvelope(cfg)
    /\ lastUpdate.before.duty_cycle = Scale \div 2
    /\ lastUpdate.before.ecoimpact_score = Scale \div 2
    /\ lastUpdate.res = "EnvelopeViolation"
    /\ nodes[lastUpdate.idx].duty_cycle = Scale \div 2

\* The half-spaces of a corridor polytope are its (row, bound) pairs; the
\* margin of pair i at x is b_i - a_i . x, in units of 1 / Scale^2.
HalfSpaces(p) == 1..Min(Len(p.a), Len(p.b))
Margin(p, x, i) ==
    LET v == stressor_vec(x)
    IN  p.b[i] * Scale - zip_dot(p.a[i], v, Min(Len(p.a[i]), Len(v)))

\* The value a . x + b of a bee-rights constraint, in units of 1 / Scale^2.
Excess(c, x) ==
    c.a[1] * x[1] + c.a[2] * x[2] + c.a[3] * x[3] + c.a[4] * x[4] + c.b * Scale

\* C4: a stressor vector strictly inside every half-space, with karma at or
\* above the trust floor, is admissible; a vector that violates some constraint
\* by more than the tolerance is not, and neither is any vector whose karma is
\* below the floor.  For is_bee_admissible the tolerance is zero; for
\* BeerightsPolytope::is_inside it is the tol argument and there is no floor.
C4_PolytopeAdmissibility ==
    /\ admOut.called =>
          /\ ( /\ \A i \in HalfSpaces(admIn.p) : Margin(admIn.p, admIn.x, i) > 0
               /\ admIn.kappa >= admIn.p.kappa_min ) => admOut.res = TRUE
          /\ (\E i \in HalfSpaces(admIn.p) : Margin(admIn.p, admIn.x, i) < 0)
                => admOut.res = FALSE
          /\ admIn.kappa < admIn.p.kappa_min => admOut.res = FALSE
    /\ rightsOut.call = "is_inside" =>
          /\ (\A i \in 1..Len(rightsIn.polytope) :
                 Excess(rightsIn.polytope[i], rightsOut.x) < 0)
                => rightsOut.res = TRUE
          /\ (\E i \in 1..Len(rightsIn.polytope) :
                 Excess(rightsIn.polytope[i], rightsOut.x) > rightsIn.tol * Scale)
                => rightsOut.res = FALSE

\* A vector strictly inside every half-space was rejected on karma alone.
C4_RejectedBelowFloor ==
    /\ admOut.called
    /\ Len(admIn.p.a) > 0
    /\ \A i \in HalfSpaces(admIn.p) : Margin(admIn.p, admIn.x, i) > 0
    /\ admIn.kappa < admIn.p.kappa_min
    /\ admOut.res = FALSE

\* A vector strictly inside every half-space, karma at the floor, was admitted.
C4_AdmittedAtFloor ==
    /\ admOut.called
    /\ Len(admIn.p.a) > 0
    /\ \A i \in HalfSpaces(admIn.p) : Margin(admIn.p, admIn.x, i) > 0
    /\ admIn.kappa = admIn.p.kappa_min
    /\ admIn.kappa > 0
    /\ admOut.res = TRUE

\* is_inside rejected a vector that breaks exactly one constraint.
C4_SingleConstraintViolated ==
    /\ rightsOut.call = "is_inside"
    /\ Cardinality({i \in 1..Len(rightsIn.polytope) :
                      Excess(rightsIn.polytope[i], rightsOut.x) > rightsIn.tol * Scale}) = 1
    /\ rightsOut.res = FALSE

\* The vector enforce_bee_rights tests: the sample and the clamped duty.
EnforcedVector ==
    <<rightsIn.env.distance_from_hive_m, rightsIn.env.o3_ugm3, rightsIn.env.emf_vpm,
      Max(0, Min(Scale, rightsIn.duty))>>

EnforcedInside ==
    \A i \in 1..Len(rightsIn.polytope) :
        Excess(rightsIn.polytope[i], EnforcedVector) <= EnforceTol * Scale

\* C5: enforce_bee_rights returns (false, 0.0) when the vector (distance,
\* pollutant, EMF, clamped proposed duty) is outside the polytope and (true,
\* clamped proposed duty) when it is inside; the enforced duty is in [0,1], is
\* either zero or the clamped proposal, and under the conservative default an
\* admitted duty is at most 0.3.
C5_EnforceBeeRights ==
    rightsOut.call = "enforce" =>
        /\ EnforcedInside => rightsOut.ok = TRUE /\ rightsOut.dc = EnforcedVector[4]
        /\ ~EnforcedInside => rightsOut.ok = FALSE /\ rightsOut.dc = 0
        /\ rightsOut.dc >= 0 /\ rightsOut.dc <= Scale
        /\ rightsOut.dc \in {0, EnforcedVector[4]}
        /\ (rightsIn.polytope = default_conservative /\ rightsOut.ok)
              => rightsOut.dc <= (3 * Scale) \div 10

\* Scenario C: 10 m from the hive, pollutant 120, EMF 2.0, duty 0.8 proposed
\* against the conservative default: stood down to zero.
C5_ScenarioCStoodDown ==
    /\ rightsOut.call = "enforce"
    /\ rightsIn.polytope = default_conservative
    /\ rightsIn.env = [distance_from_hive_m |-> 10 * Scale, o3_ugm3 |-> 120 * Scale,
                       emf_vpm |-> 2 * Scale]
    /\ rightsIn.duty = (4 * Scale) \div 5
    /\ rightsOut.ok = FALSE
    /\ rightsOut.dc = 0

\* A proposal above 1 was admitted at the clamped value by a loose polytope.
C5_ClampedAdmitted ==
    /\ rightsOut.call = "enforce"
    /\ rightsIn.duty > Scale
    /\ Len(rightsIn.polytope) > 0
    /\ rightsOut.ok = TRUE
    /\ rightsOut.dc = Scale

\* The indices of the proposal of a next_state call, and its residual.
PropHb == hysProp.envelope.band.host_budget
PropEco == hysProp.envelope.band.eco_band
PropDw == hysProp.envelope.band.dw_ceiling
PropResidual ==
    Max(PropHb, 0) * Max(PropHb, 0) + Max(PropEco, 0) * Max(PropEco, 0)
        + Max(PropDw, 0) * Max(PropDw, 0)
Returned(call) == hysPc = "returned" /\ hysOut.call = call

\* C6 as stated: next_state returns current when the proposed host-budget
\* index exceeds 0.85 x the proposed eco-band index, otherwise current when
\* residual(proposed) exceeds v_safe, and otherwise proposed.
C6_AcceptIffCrossInvariantAndResidual ==
    Returned("next_state") =>
        IF 100 * PropHb > 85 * PropEco THEN hysOut.next = hysCur
        ELSE IF PropResidual > hysInv.v_safe * Scale THEN hysOut.next = hysCur
        ELSE hysOut.next = hysProp

\* The conditions under which the code lets a proposal through.
Acceptable ==
    /\ PropEco > 0
    /\ 100 * PropHb <= 85 * PropEco
    /\ PropHb <= Scale /\ PropEco <= Scale /\ PropDw <= Scale
    /\ PropResidual <= hysInv.v_safe * Scale

\* C6: next_state returns proposed exactly when the proposed eco-band index is
\* positive, the host-budget index is at most 0.85 x the eco-band index, none
\* of the three indices exceeds 1 and residual(proposed) is at most v_safe;
\* in every other case it returns current.
C6_AcceptIffPositiveEcoAndEnvelope ==
    Returned("next_state") =>
        IF Acceptable THEN hysOut.next = hysProp ELSE hysOut.next = hysCur

\* A proposal at the origin (all indices zero, residual zero) met a different
\* current state and was held back.
C6_ZeroEcoProposalHeld ==
    /\ Returned("next_state")
    /\ PropHb = 0 /\ PropEco = 0 /\ PropDw = 0
    /\ hysProp # hysCur
    /\ hysOut.next = hysCur

\* C7: next_state(s, s, inv) = s whenever s satisfies the invariant.
C7_IdempotentOnEqualStates ==
    ( /\ Returned("next_state")
      /\ hysProp = hysCur
      /\ holds(hysInv, hysCur.envelope) ) => hysOut.next = hysCur

\* next_state(s, s, inv) was called on an s that passes every gate and whose
\* host-budget index lies below zero.
C7_EqualStatesAccepted ==
    /\ Returned("next_state")
    /\ hysProp = hysCur
    /\ holds(hysInv, hysCur.envelope)
    /\ Acceptable
    /\ PropHb < 0
    /\ hysOut.next = hysCur

\* C8: whichever of BeeHysteresisRule and BeeEscalationPolicy is called, the
\* state next_state returns equals current or proposed in every field, and
\* the call leaves current, proposed and the invariant as they were.
C8_HoldOrAccept ==
    [][ (hysPc = "proposed" /\ hysPc' = "returned" /\ hysOut'.call = "next_state")
          => /\ hysOut'.next \in {hysCur, hysProp}
             /\ hysCur' = hysCur /\ hysProp' = hysProp /\ hysInv' = hysInv ]_vars

\* BeeEscalationPolicy held the current state against a proposal over the
\* 0.85 line that differs from it in every index.
C8_EscalationPolicyHeld ==
    /\ Returned("next_state")
    /\ hysOut.rule = "BeeEscalationPolicy"
    /\ 100 * PropHb > 85 * PropEco /\ PropEco > 0
    /\ PropHb # hysCur.envelope.band.host_budget
    /\ PropEco # hysCur.envelope.band.eco_band
    /\ PropDw # hysCur.envelope.band.dw_ceiling
    /\ hysOut.next = hysCur

\* C9: classify_trigger returns BeeColonyStress iff the host-budget index is
\* above 0.9, BeeThermalDrift iff it is at most 0.9 and above 0.85 x the
\* eco-band index, and no trigger otherwise.
C9_ClassifyTrigger ==
    Returned("classify_trigger") =>
        /\ hysOut.trigger \in {"BeeColonyStress", "BeeThermalDrift", "None"}
        /\ hysOut.trigger = "BeeColonyStress" <=> 10 * PropHb > 9 * Scale
        /\ hysOut.trigger = "BeeThermalDrift" <=>
              (10 * PropHb <= 9 * Scale /\ 100 * PropHb > 85 * PropEco)
        /\ hysOut.trigger = "None" <=>
              (10 * PropHb <= 9 * Scale /\ 100 * PropHb <= 85 * PropEco)

\* A state over both lines was classified as colony stress alone.
C9_ColonyStressTakesPrecedence ==
    /\ Returned("classify_trigger")
    /\ 10 * PropHb > 9 * Scale
    /\ 100 * PropHb > 85 * PropEco
    /\ hysOut.trigger = "BeeColonyStress"

\* C10: a liability update with delta_liability <= warn_threshold leaves karma
\* and the access tier as they were, whatever they were, and changes only the
\* predicted and the realized harm score, which it sets to those of the
\* aggregation.
C10_LiabilityBelowWarnIsNoOp ==
    [][ ( /\ ledPc = "aggregated" /\ ledPc' = "applied"
          /\ ledHarm.delta_liability <= ledCfg.warn_threshold )
          => /\ ledEnv'.kappa = ledEnv.kappa
             /\ ledEnv'.blood_gate_level = ledEnv.blood_gate_level
             /\ ledEnv'.predicted_harm_score = ledHarm.predicted_harm
             /\ ledEnv'.realized_harm_score = ledHarm.realized_harm ]_vars

\* An aggregation at or below the warn threshold was applied to an envelope
\* whose tier is not the one its karma would give: the scores are recorded,
\* the tier is still that one.
C10_ScoresRecordedTierKept ==
    /\ ledPc = "applied"
    /\ ledHarm.delta_liability <= ledCfg.warn_threshold
    /\ ledHarm.realized_harm > 0
    /\ ledEnv.realized_harm_score = ledHarm.realized_harm
    /\ ledEnv.predicted_harm_score = ledHarm.predicted_harm
    /\ ledEnv.kappa > 0
    /\ ledEnv.blood_gate_level # tier_of(ledEnv.kappa)

\* The liability step: apply_liability_to_envelope runs on ledEnv with ledHarm.
LiabilityStep == ledPc = "aggregated" /\ ledPc' = "applied"
OverWarn == ledHarm.delta_liability > ledCfg.warn_threshold
Tripped == ledHarm.delta_liability >= ledCfg.downgrade_threshold

\* kappa_old - scale * (delta_liability - warn_threshold), floored at 0
DecayedKappa(kappa, delta) ==
    Max(0, kappa - (ledCfg.karma_penalty_scale * (delta - ledCfg.warn_threshold)) \div Scale)

\* The tier the thresholds 0.8, 0.6, 0.4 give a karma k.
TierByThresholds(k) ==
    IF 10 * k >= 8 * Scale THEN 3
    ELSE IF 10 * k >= 6 * Scale THEN 2
    ELSE IF 10 * k >= 4 * Scale THEN 1
    ELSE 0

\* The karma another aggregation of at least this liability would leave.
KappaAfter(h) ==
    apply_liability_to_envelope(ledEnv, h, ledCfg.warn_threshold,
        ledCfg.downgrade_threshold, ledCfg.karma_penalty_scale).kappa

\* The formula of the update above the warn threshold, and the tier
\* recomputed from the new karma (less the forced step of a trip).
KappaFormulaAndTier ==
    /\ ledEnv'.kappa = DecayedKappa(ledEnv.kappa, ledHarm.delta_liability)
    /\ ledEnv'.blood_gate_level =
          IF Tripped THEN Max(0, TierByThresholds(ledEnv'.kappa) - 1)
                     ELSE TierByThresholds(ledEnv'.kappa)

\* C11 as stated: above the warn threshold kappa_new is
\* max(0, kappa_old - scale (delta - warn)), the tier is recomputed from it,
\* and kappa_new is non-increasing in delta_liability.
C11_KappaDecayMonotone ==
    [][ (LiabilityStep /\ OverWarn)
          => /\ KappaFormulaAndTier
             /\ \A h \in HarmAggregations :
                   h.delta_liability >= ledHarm.delta_liability
                      => KappaAfter(h) <= ledEnv'.kappa ]_vars

\* C11: above the warn threshold kappa_new is
\* max(0, kappa_old - scale (delta - warn)) and the tier is recomputed from it
\* by the thresholds 0.8, 0.6, 0.4; for a penalty scale that is not negative
\* kappa_new is non-increasing in delta_liability.
C11_KappaDecayMonotoneForPenalty ==
    [][ (LiabilityStep /\ OverWarn)
          => /\ KappaFormulaAndTier
             /\ ledCfg.karma_penalty_scale >= 0 =>
                   \A h \in HarmAggregations :
                       h.delta_liability >= ledHarm.delta_liability
                          => KappaAfter(h) <= ledEnv'.kappa ]_vars

\* Scenario D: a liability of 0.2 over a warn threshold of 0.05 at scale 1.0
\* has brought a karma (of 0.5) to 0.35 and the tier to 0.
C11_ScenarioDApplied ==
    /\ ledPc = "applied"
    /\ ledCfg = scenario_d_cfg
    /\ ledHarm.delta_liability = Scale \div 5
    /\ ledEnv.kappa = (7 * Scale) \div 20
    /\ ledEnv.blood_gate_level = 0

\* C12 as stated: whenever delta_liability >= downgrade_threshold, whatever
\* the two thresholds, the resulting tier is one step below the tier of
\* kappa_new, floored at 0.
C12_TripAlwaysStepsDown ==
    [][ (LiabilityStep /\ Tripped)
          => ledEnv'.blood_gate_level = Max(0, TierByThresholds(ledEnv'.kappa) - 1) ]_vars

\* C12: whenever delta_liability >= downgrade_threshold and delta_liability
\* is above the warn threshold, the resulting tier is one step below the tier
\* of kappa_new, floored at 0; at or below the warn threshold the call
\* returns before the trip and the tier stays as it was.
C12_TripAboveWarnStepsDown ==
    [][ (LiabilityStep /\ Tripped)
          => IF OverWarn
             THEN ledEnv'.blood_gate_level = Max(0, TierByThresholds(ledEnv'.kappa) - 1)
             ELSE ledEnv'.blood_gate_level = ledEnv.blood_gate_level ]_vars

\* A trip above the warn threshold left a karma of at least 0.4 one tier
\* below the tier of that karma.
C12_TrippedOneBelow ==
    /\ ledPc = "applied"
    /\ Tripped /\ OverWarn
    /\ 10 * ledEnv.kappa >= 4 * Scale
    /\ ledEnv.blood_gate_level = TierByThresholds(ledEnv.kappa) - 1

\* A liability at or over the downgrade threshold but not over the warn
\* threshold left the tier at the tier of the karma.
C12_TripBelowWarnSkipped ==
    /\ ledPc = "applied"
    /\ Tripped /\ ~OverWarn
    /\ ledHarm.realized_harm > 0
    /\ ledEnv.realized_harm_score = ledHarm.realized_harm
    /\ 10 * ledEnv.kappa >= 4 * Scale
    /\ ledEnv.blood_gate_level = TierByThresholds(ledEnv.kappa)

\* The karma step: apply_karma_delta runs on ledEnv (and changes it).
KarmaStep == ledPc = "idle" /\ ledPc' = "idle" /\ ledEnv' # ledEnv
TierIsOfKappa(env) == env.blood_gate_level = TierByThresholds(env.kappa)

\* C13 as stated: the tier is a pure function of the current karma in every
\* state the two calls reach, that is, no call takes an envelope whose tier is
\* the tier of its karma to one whose tier is not.
C13_TierPureFunctionOfKappa ==
    [][ TierIsOfKappa(ledEnv) => TierIsOfKappa(ledEnv') ]_vars

\* C13: after apply_karma_delta, and after a liability update above the warn
\* threshold and below the downgrade threshold, the tier is the tier of the
\* current karma by the thresholds 0.4, 0.6, 0.8; after a liability update at
\* or over the downgrade threshold (and above the warn threshold) it is one
\* step below that tier, floored at 0; a liability update at or below the warn
\* threshold leaves karma and tier as they were.
C13_TierAfterEachCall ==
    [][ /\ KarmaStep => TierIsOfKappa(ledEnv')
        /\ LiabilityStep =>
              IF ~OverWarn
              THEN /\ ledEnv'.kappa = ledEnv.kappa
                   /\ ledEnv'.blood_gate_level = ledEnv.blood_gate_level
              ELSE IF Tripped
              THEN ledEnv'.blood_gate_level = Max(0, TierByThresholds(ledEnv'.kappa) - 1)
              ELSE TierIsOfKappa(ledEnv') ]_vars

\* At rest after a trip, the envelope holds a karma of at least 0.6 with a
\* tier one below the tier of that karma.
C13_TierBelowKappaAtRest ==
    /\ ledPc = "idle"
    /\ Tripped /\ OverWarn
    /\ 10 * ledEnv.kappa >= 6 * Scale
    /\ ledEnv.kappa <= Scale
    /\ ledEnv.blood_gate_level = TierByThresholds(ledEnv.kappa) - 1

\* C14: karma stays in [0,1] and the tier in {0,1,2,3} in every state reached
\* from an envelope with karma in [0,1] by apply_liability_to_envelope (any
\* thresholds, any penalty scale) and apply_karma_delta (any delta).
C14_KappaInUnitTierInRange ==
    /\ ledEnv.kappa >= 0 /\ ledEnv.kappa <= Scale
    /\ ledEnv.blood_gate_level \in {0, 1, 2, 3}

\* Under a penalty scale that is not negative karma and tier do stay in range.
KappaInUnit_PenaltyNotNegative ==
    ledCfg.karma_penalty_scale >= 0 => C14_KappaInUnitTierInRange

\* The band of the corridor load of the nodes ns, with the weights of main.
CorridorBandOf(ns) == classify(cfg, eco_load(cfg, ns, Scale \div 2, Scale \div 2))

\* C15: within a cycle the eco-load and its band are computed once, from the
\* nodes as they are before any duty cycle of the cycle is changed; no node
\* changes before the band is there, the band does not change while the nodes
\* are updated, and every node that changes is updated under that band.
C15_AggregateThenUpdate ==
    [][ /\ pc = "aggregate" =>
              /\ nodes' = nodes
              /\ pc' = "update" /\ idx' = 1
              /\ band' = CorridorBandOf(nodes)
        /\ pc = "update" => band' = band
        /\ nodes' # nodes =>
              /\ pc = "update"
              /\ \E i \in 1..Len(nodes) :
                    nodes' = [nodes EXCEPT
                                 ![i] = update_node_duty(cfg, nodes[i], band, phi_dw).node] ]_vars

\* The first node's duty cycle has changed and the second is about to be
\* updated, under a band above Green that is still the band of the corridor
\* load and is not the band of the second node's own load.
C15_SecondNodeUnderCorridorBand ==
    /\ pc = "update" /\ idx = 2
    /\ lastUpdate.idx = 1
    /\ nodes[1].duty_cycle # lastUpdate.before.duty_cycle
    /\ band # "Green"
    /\ band = CorridorBandOf(nodes)
    /\ band # CorridorBandOf(<<nodes[2]>>)

\* C16: a guard violation at one node is not fatal to the cycle: the node is
\* left at its last duty cycle and the nodes after it are still processed, so
\* the cycle never stands ended by a failed guard with nodes left over (or at
\* all: the loop runs to its end and the summary is emitted).
C16_GuardFailureNotFatal ==
    /\ pc # "failed"
    /\ (lastUpdate.res \notin {"Ok", "none"} /\ pc \in {"update", "done"})
          => nodes[lastUpdate.idx] = lastUpdate.before

\* Each update of a node either commits or leaves the node as it was.
CommitOrHold_EachUpdate ==
    lastUpdate.res \notin {"Ok", "none"} => nodes[lastUpdate.idx] = lastUpdate.before

\* The cycle has ended at the first node's failed guard, the second node
\* not processed.
GuardFailureEndedCycle ==
    /\ pc = "failed"
    /\ lastUpdate.idx = 1 /\ idx = 1
    /\ lastUpdate.res \notin {"Ok", "none"}

\* A configuration the specification calls an error: thresholds that are not
\* monotonic, or a negative reference scale.
ConfigurationError(c) ==
    \/ c.theta_green_amber > c.theta_amber_red
    \/ c.m_ref_kg < 0
    \/ c.k_ref_nb < 0

\* C17: a configuration with non-monotonic eco-band thresholds or a negative
\* reference scale is rejected at setup: under it no eco_load, classify or
\* update_node_duty step is ever executed.
C17_ConfigurationErrorRejected ==
    ConfigurationError(cfg) => (pc = "aggregate" /\ lastUpdate = NoUpdate)

\* Under thresholds 1.0 > 0.5 the cycle has classified the load and committed
\* a new duty cycle for the first node.
NonMonotonicThresholdsRan ==
    /\ cfg.theta_green_amber > cfg.theta_amber_red
    /\ pc = "update"
    /\ lastUpdate.res = "Ok"
    /\ nodes[lastUpdate.idx] # lastUpdate.before

\* Under a negative k_ref the cycle has committed a new duty cycle.
NegativeReferenceScaleRan ==
    /\ cfg.k_ref_nb < 0
    /\ lastUpdate.res = "Ok"
    /\ nodes[lastUpdate.idx] # lastUpdate.before

\* C18: the removed mass is >= 0 for every input row, in compute_mass_kg and
\* in step_node: a concentration that rises across the machine gives mass 0.
C18_MassNonNegative ==
    /\ estOut.call = "compute_mass_kg" => estOut.mass_kg >= 0
    /\ microTel # NoTelemetry => microTel.m_removed_kg >= 0

\* Both compute_mass_kg give a mass >= 0, and 0 when Cout > Cin.
MassNonNegative_ComputeMassKg ==
    estOut.call = "compute_mass_kg" =>
        /\ estOut.mass_kg >= 0
        /\ estRow.row.cout > estRow.row.cin => estOut.mass_kg = 0

\* step_node has returned a negative removed mass.
StepNodeNegativeMass ==
    /\ microTel # NoTelemetry
    /\ microTel.m_removed_kg < 0

\* The order of two normalizer results: zero, then the values below one by
\* their distance from 1, then one.
RiskRank(sv) ==
    CASE sv.k = "negative"  -> -1
      [] sv.k = "zero"      -> 0
      [] sv.k = "below_one" -> sv.order + 1
      [] sv.k = "one"       -> F64OneOrder + 1

\* The result of the normalizer called, for another aggregate karma.
RiskOf(karma) ==
    IF riskOut.call = "compute_sbee"
    THEN compute_sbee(karma, riskIn.kref, riskIn.alpha)
    ELSE compute_ecoimpact(0, karma, riskIn.kref, riskIn.alpha)

\* Zero at zero, never below zero, non-decreasing in the aggregate karma.
RiskZeroAndMonotone ==
    /\ riskOut.s.k # "negative"
    /\ riskIn.karma_total = 0 => riskOut.s.k = "zero"
    /\ \A k2 \in KarmaTotals :
          k2 >= riskIn.karma_total => RiskRank(RiskOf(k2)) >= RiskRank(riskOut.s)

\* C19 as stated: each normalizer is non-decreasing in karma_total, 0 at
\* karma_total = 0, and in [0,1) for a positive karma_total: never exactly 1.
C19_RiskBelowOne ==
    riskOut.call # "none" =>
        /\ RiskZeroAndMonotone
        /\ riskOut.s.k # "one"

\* C19: each normalizer is non-decreasing in karma_total, 0 at karma_total = 0
\* and in [0,1] for a positive karma_total; it is below 1 as long as the
\* exponent alpha * karma_total / kref stays under 54 ln 2 (about 37.4) and
\* the f64 result is exactly 1.0 from there on.
C19_RiskInUnitSaturating ==
    riskOut.call # "none" =>
        /\ RiskZeroAndMonotone
        /\ LET ref == IF riskOut.call = "compute_sbee"
                      THEN Max(riskIn.kref, Scale) ELSE riskIn.kref
           IN  (ref > 0 /\ riskIn.karma_total > 0) =>
                  (riskOut.s.k = "one" <=>
                      (riskIn.alpha * riskIn.karma_total) \div ref
                          >= (F64OneOrder * 6931 * Scale + 9999) \div 10000)

\* compute_sbee has returned exactly 1.0 for a karma of 40 bytes over a
\* reference of 1 at alpha 1.0.
C19_SbeeReachedOne ==
    /\ riskOut.call = "compute_sbee"
    /\ riskIn = [alpha |-> Scale, kref |-> Scale, karma_total |-> 40 * Scale]
    /\ riskOut.s.k = "one"

\* A node is given a newly computed duty cycle: one that is neither its
\* previous duty cycle nor 0.
CommitsNewDuty(i) ==
    /\ nodes'[i].duty_cycle # nodes[i].duty_cycle
    /\ nodes'[i].duty_cycle # 0

\* C20: before a newly computed nonzero duty cycle is committed for a node
\* the guards have been consulted and none reports a violation: the node is
\* inside the safety envelope, within the host budget, and the corridor flux
\* density passes the DW ceiling check.
C20_GuardsPassBeforeCommit ==
    [][ \A i \in 1..Len(nodes) :
           CommitsNewDuty(i) =>
              /\ check_envelope(cfg, nodes[i]) = "Ok"
              /\ check_host_budget(cfg, nodes[i]) = "Ok"
              /\ check_dw_ceiling(cfg, phi_dw) = "Ok" ]_vars

\* The two guards update_node_duty does call pass before every commit.
EnvelopeAndBudgetPassBeforeCommit ==
    [][ \A i \in 1..Len(nodes) :
           CommitsNewDuty(i) =>
              /\ check_envelope(cfg, nodes[i]) = "Ok"
              /\ check_host_budget(cfg, nodes[i]) = "Ok" ]_vars

\* The first node of the cycle has been given a new nonzero duty cycle while
\* the flux density of the cycle is over the DW ceiling.
CommittedOverDwCeiling ==
    /\ pc = "update" /\ idx = 2
    /\ lastUpdate.idx = 1 /\ lastUpdate.res = "Ok"
    /\ nodes[1].duty_cycle # lastUpdate.before.duty_cycle
    /\ nodes[1].duty_cycle # 0
    /\ check_dw_ceiling(cfg, phi_dw) = "DwCeilingExceeded"

\* C21 as stated: a verifier approves exactly when node_ids and duty_cycles
\* have the same length (a ControlProposal has one of each) and every proposed
\* duty cycle is in [0,1]; validate_duty_cycle accepts exactly [0,1].
C21_ApprovedIffLengthsAndRange ==
    /\ govOut.call = "validate_duty_cycle" =>
          (govOut.approved <=> InUnitF(govControl.new_duty_cycle))
    /\ govOut.call = "verify" =>
          (govOut.approved <=>
              /\ Len(govProposal.node_ids) = Len(govProposal.duty_cycles)
              /\ \A i \in 1..Len(govProposal.duty_cycles) :
                    InUnitF(govProposal.duty_cycles[i]))
    /\ govOut.call = "pipeline_verify" =>
          (govOut.approved <=> InUnitF(govControl.new_duty_cycle))

\* C21: validate_duty_cycle accepts exactly the values in [0,1]; the Verifier
\* of lib.rs approves exactly when node_ids and duty_cycles have the same
\* length and every duty cycle is in [0,1]; the Verifier of pipeline.rs
\* approves exactly when the node id is not empty, the duty cycle is in [0,1]
\* and the horizon is positive; neither approves a proposal with a duty cycle
\* outside [0,1].
C21_VerifierApproval ==
    /\ govOut.call = "validate_duty_cycle" =>
          (govOut.approved <=> InUnitF(govControl.new_duty_cycle))
    /\ govOut.call = "verify" =>
          (govOut.approved <=>
              /\ Len(govProposal.node_ids) = Len(govProposal.duty_cycles)
              /\ \A i \in 1..Len(govProposal.duty_cycles) :
                    InUnitF(govProposal.duty_cycles[i]))
    /\ govOut.call = "pipeline_verify" =>
          (govOut.approved <=>
              /\ govControl.node_id # ""
              /\ InUnitF(govControl.new_duty_cycle)
              /\ govControl.horizon_seconds > 0)

\* The Verifier of lib.rs has approved a two-node proposal with the duty
\* cycles 0.0 and 1.0.
C21_EndpointsApproved ==
    /\ govOut.call = "verify"
    /\ govOut.approved
    /\ govProposal.duty_cycles = <<Fin(0), Fin(Scale)>>

\* The Verifier of pipeline.rs has rejected a proposal whose duty cycle is in
\* [0,1], for its horizon of 0 seconds.
C21_InRangeRejectedForHorizon ==
    /\ govOut.call = "pipeline_verify"
    /\ ~govOut.approved
    /\ govControl.node_id # ""
    /\ InUnitF(govControl.new_duty_cycle)
    /\ govControl.horizon_seconds = 0

\* C22: the final duty cycles of a cycle do not depend on the order of the
\* per-node updates: whatever its place in the loop, a node ends the cycle
\* with the duty cycle its own update gives under the cycle's band and DW
\* flux.  A node the loop has not reached when the cycle ends is therefore a
\* node its own update, run first, would have left as it is.
C22_FinalDutiesOrderIndependent ==
    (prog = "corridor" /\ pc = "failed") =>
        \A i \in (idx + 1)..Len(nodes) :
            update_node_duty(cfg, nodes[i], band, phi_dw).node = nodes[i]

\* The parts of C22 about one update: it changes one node, only its
\* duty_cycle, to a value computed from that node alone (with the
\* configuration, the band and the DW flux), and it leaves the eco-load as it
\* was.
UpdateReadsAndWritesOneNode ==
    [][ nodes' # nodes =>
          /\ \E i \in 1..Len(nodes) :
                /\ nodes' = [nodes EXCEPT ![i] =
                                [nodes[i] EXCEPT !.duty_cycle = nodes'[i].duty_cycle]]
                /\ nodes'[i] = update_node_duty(cfg, nodes[i], band, phi_dw).node
          /\ eco_load(cfg, nodes', Scale \div 2, Scale \div 2)
                = eco_load(cfg, nodes, Scale \div 2, Scale \div 2) ]_vars

\* The first node's guard has failed and ended the cycle; the second node,
\* which its own update would have changed, keeps its duty cycle.
SecondNodeLeftByFailedFirst ==
    /\ pc = "failed" /\ idx = 1
    /\ Len(nodes) >= 2
    /\ update_node_duty(cfg, nodes[2], band, phi_dw).res = "Ok"
    /\ update_node_duty(cfg, nodes[2], band, phi_dw).node # nodes[2]

\* x / ref as the control law normalizes it: 0 for a reference scale <= 0.
Normalized(x, ref) == IF ref <= 0 THEN 0 ELSE FDiv(x, ref)

\* The control law of the specification for node n under band b and flux phi.
ControlLaw(c, n, b, phi) ==
    n.duty_cycle
      + FMul(c.eta_m, Normalized(n.mass_kg, c.m_ref_kg))
      + FMul(c.eta_k, Normalized(n.karma_bytes, c.k_ref_nb))
      + FMul(c.eta_w, n.geo_weight)
      + FMul(c.eta_b, band_gain(c, b))
      - FMul(c.eta_p, IF c.p_max_w <= 0 THEN 0
                      ELSE Max(FDiv(n.power_w, c.p_max_w), 0))
      - FMul(c.eta_dw, dw_violation(c, phi))

\* C23: an update of a node that passes the envelope and the host budget
\* returns Ok and commits exactly the control law's value clamped to [0,1],
\* leaving every other field and node as it was; the clamp never rejects.
C23_CommitsClampedControlLaw ==
    [][ (/\ prog = "corridor" /\ pc = "update" /\ idx <= Len(nodes)
         /\ InEnvelope(cfg, nodes[idx]) /\ ~OverBudget(cfg, nodes[idx])) =>
            /\ lastUpdate'.res = "Ok"
            /\ nodes' = [nodes EXCEPT ![idx].duty_cycle =
                            Max(0, Min(Scale, ControlLaw(cfg, nodes[idx], band, phi_dw)))] ]_vars

\* A node with a negative power reading has passed both guards and its new
\* duty cycle, strictly inside (0,1), has been committed with the power term
\* at 0.
C23_NegativePowerCommitted ==
    /\ pc = "update"
    /\ lastUpdate.res = "Ok"
    /\ lastUpdate.before.power_w < 0
    /\ cfg.eta_p # 0 /\ cfg.p_max_w > 0
    /\ nodes[lastUpdate.idx].duty_cycle # lastUpdate.before.duty_cycle
    /\ nodes[lastUpdate.idx].duty_cycle \in 1..(Scale - 1)

\* The conditions of C24 on a bee state s.
SafeBeeState(s) ==
    LET b == s.envelope.band
    IN  /\ b.eco_band > 0
        /\ 100 * b.host_budget <= 85 * b.eco_band
        /\ b.host_budget <= Scale /\ b.eco_band <= Scale /\ b.dw_ceiling <= Scale
        /\ Max(b.host_budget, 0) * Max(b.host_budget, 0)
             + Max(b.eco_band, 0) * Max(b.eco_band, 0)
             + Max(b.dw_ceiling, 0) * Max(b.dw_ceiling, 0) <= hysInv.v_safe * Scale

\* C24: a state next_state returns in place of current is the proposed state
\* and has eco_band > 0, host_budget <= 0.85 eco_band, all three indices <= 1
\* and residual <= v_safe; so a current state with these conditions keeps
\* them through every next_state step, whatever is proposed, and a current
\* state without them is only ever replaced by a state that has them.
C24_AcceptedStatesAreSafe ==
    [][ /\ (hysPc = "proposed" /\ hysPc' = "returned" /\ hysOut'.call = "next_state") =>
              /\ hysOut'.next # hysCur =>
                    (hysOut'.next = hysProp /\ SafeBeeState(hysOut'.next))
              /\ SafeBeeState(hysCur) => SafeBeeState(hysOut'.next)
        /\ SafeBeeState(hysCur) => SafeBeeState(hysCur')
        /\ hysCur' # hysCur => SafeBeeState(hysCur') ]_vars

\* A current state over the 0.85 line has been replaced by a proposed state
\* that satisfies the conditions.
C24_UnsafeCurrentReplacedBySafe ==
    /\ Returned("next_state")
    /\ ~SafeBeeState(hysCur)
    /\ hysOut.next = hysProp /\ hysProp # hysCur
    /\ 100 * hysCur.envelope.band.host_budget > 85 * hysCur.envelope.band.eco_band
    /\ SafeBeeState(hysProp)

\* C25: next_state returns current for every proposed state for which
\* classify_trigger returns BeeColonyStress or BeeThermalDrift, and every
\* proposed state next_state accepts classifies to no trigger.
C25_TriggeredProposalRejected ==
    Returned("next_state") =>
        /\ classify_trigger(hysProp) # "None" => hysOut.next = hysCur
        /\ Acceptable => (hysOut.next = hysProp /\ classify_trigger(hysOut.next) = "None")

\* A proposal over the 0.9 line, inside [0,1] and under v_safe, that differs
\* from the current state has been rejected.
C25_ColonyStressProposalRejected ==
    /\ Returned("next_state")
    /\ classify_trigger(hysProp) = "BeeColonyStress"
    /\ PropHb <= Scale /\ PropEco \in 1..Scale /\ PropDw <= Scale
    /\ PropResidual <= hysInv.v_safe * Scale
    /\ hysProp # hysCur
    /\ hysOut.next = hysCur

\* C30: residual(env) is >= 0 for every envelope, indices below 0 counting
\* as 0, and is 0 exactly when all three indices are <= 0; holds(env) is true
\* exactly when residual(env) <= v_safe.
C30_ResidualNonNegative ==
    Returned("residual") =>
        /\ hysOut.res >= 0
        /\ hysOut.res = 0 <=> (PropHb <= 0 /\ PropEco <= 0 /\ PropDw <= 0)
        /\ hysOut.res = PropResidual
        /\ hysOut.holds <=> hysOut.res <= hysInv.v_safe * Scale

\* The residual of an envelope with a negative host-budget index and the
\* other two at 0 has been read as 0, and the invariant holds there.
C30_NegativeIndexFloored ==
    /\ Returned("residual")
    /\ PropHb < 0 /\ PropEco = 0 /\ PropDw = 0
    /\ hysOut.res = 0
    /\ hysOut.holds

\* C26 as stated: from an envelope whose tier is the one derived from its
\* karma, and with a penalty scale >= 0, no call of
\* apply_liability_to_envelope leaves a higher tier than it found.
C26_TierNeverRises ==
    [][ LiabilityStep => ledEnv'.blood_gate_level <= ledEnv.blood_gate_level ]_vars

\* C26: from an envelope whose tier is the one derived from its karma, and
\* with a penalty scale >= 0, the tier derived from karma never rises from one
\* call of apply_liability_to_envelope to the next, and the tier a call leaves
\* is at most the tier the karma before the call gives.  The tier itself rises
\* only by the one step a trip has forced below the karma-derived tier, in a
\* later call above the warn threshold that is not a trip.
C26_TierRisesOnlyAfterTrip ==
    [][ LiabilityStep =>
          /\ TierByThresholds(ledEnv'.kappa) <= TierByThresholds(ledEnv.kappa)
          /\ ledEnv'.blood_gate_level <= TierByThresholds(ledEnv.kappa)
          /\ ledEnv'.blood_gate_level <= TierByThresholds(ledBase.kappa0)
          /\ ledEnv'.blood_gate_level > ledEnv.blood_gate_level =>
                /\ ledEnv'.blood_gate_level = ledEnv.blood_gate_level + 1
                /\ ledEnv.blood_gate_level = TierByThresholds(ledEnv.kappa) - 1
                /\ OverWarn /\ ~Tripped ]_vars

\* A trip has left the tier one step under the karma-derived tier, and the
\* aggregation now to be applied, above the warn threshold and no trip, leaves
\* a karma whose tier is above the present tier.
C26_TierAboutToRiseAfterTrip ==
    /\ ledPc = "aggregated"
    /\ ledBase.penalties > 0
    /\ ledEnv.blood_gate_level = TierByThresholds(ledEnv.kappa) - 1
    /\ OverWarn /\ ~Tripped
    /\ TierByThresholds(KappaAfter(ledHarm)) > ledEnv.blood_gate_level


\* The closed form of kappa: the first kappa less the penalties charged since,
\* floored at 0.
KappaClosedForm == Max(0, fltHist.kappa0 - fltHist.penalties)

\* kappa after the liability d1 and then the liability d2.
KappaAfterBoth(d1, d2) ==
    apply_liability_f64(apply_liability_f64(fltEnv, d1, fltCfg), d2, fltCfg).kappa

\* C27 as stated: with a penalty scale >= 0, kappa never increases, kappa
\* after a sequence of updates equals max(0, kappa_0 - the sum of the
\* penalties), and it is the same in either order of two updates.
C27_KappaClosedFormAnyOrder ==
    /\ fltEnv.kappa <= fltHist.kappa0
    /\ fltEnv.kappa = KappaClosedForm
    /\ \A d1, d2 \in FltDeltas : KappaAfterBoth(d1, d2) = KappaAfterBoth(d2, d1)

\* C27: with a penalty scale >= 0, kappa never increases; kappa equals
\* max(0, kappa_0 - the sum of the penalties) while no subtraction from kappa
\* was rounded, and is within half an ulp per update of it otherwise.
C27_KappaNearClosedForm ==
    /\ fltEnv.kappa <= fltHist.kappa0
    /\ \A d \in FltDeltas : apply_liability_f64(fltEnv, d, fltCfg).kappa <= fltEnv.kappa
    /\ ~fltHist.rounded => fltEnv.kappa = KappaClosedForm
    /\ 2 * Abs(fltEnv.kappa - KappaClosedForm) <= fltHist.calls * UlpBelowOne

\* C27: after two updates whose penalties are the liabilities themselves
\* (warn_threshold 0, scale 1.0), kappa is off the closed form.
C27_KappaOffClosedForm ==
    /\ prog = "bee_ledger_f64"
    /\ fltCfg.warn_threshold = 0
    /\ fltCfg.karma_penalty_scale = FltOne
    /\ fltHist.calls = 2
    /\ fltHist.rounded
    /\ fltEnv.kappa # KappaClosedForm
    /\ fltEnv.kappa > 0

\* C27: two liabilities that leave a different kappa, and tier, by their order.
C27_OrderChangesTier ==
    /\ prog = "bee_ledger_f64"
    /\ \E d1, d2 \in FltDeltas :
          LET a == apply_liability_f64(apply_liability_f64(fltEnv, d1, fltCfg), d2, fltCfg)
              b == apply_liability_f64(apply_liability_f64(fltEnv, d2, fltCfg), d1, fltCfg)
          IN  /\ a.kappa # b.kappa
              /\ tier_of_f64(a.kappa) # tier_of_f64(b.kappa)


\* C28: the DW-ceiling guard and its penalty agree for every ceiling:
\* dw_violation(phi) is 0 exactly when check_dw_ceiling(phi) passes, and is
\* otherwise the overage (phi - phi_dw_max)/phi_dw_max > 0.
C28_PenaltyZeroIffCeilingPasses ==
    prog = "corridor" =>
        /\ dw_violation(cfg, phi_dw) = 0 <=> check_dw_ceiling(cfg, phi_dw) = "Ok"
        /\ check_dw_ceiling(cfg, phi_dw) = "DwCeilingExceeded" =>
              /\ dw_violation(cfg, phi_dw) > 0
              /\ cfg.phi_dw_max # 0 =>
                    dw_violation(cfg, phi_dw) = FDiv(phi_dw - cfg.phi_dw_max, cfg.phi_dw_max)

\* Under a ceiling > 0 the guard and the penalty agree: the penalty is 0
\* when the check passes and the overage over the ceiling when it fails.
PenaltyAgreesUnderPositiveCeiling ==
    (prog = "corridor" /\ cfg.phi_dw_max > 0) =>
        /\ dw_violation(cfg, phi_dw) = 0 <=> check_dw_ceiling(cfg, phi_dw) = "Ok"
        /\ check_dw_ceiling(cfg, phi_dw) = "DwCeilingExceeded" =>
              /\ dw_violation(cfg, phi_dw) > 0
              /\ dw_violation(cfg, phi_dw) = FDiv(phi_dw - cfg.phi_dw_max, cfg.phi_dw_max)

\* A flux over a ceiling of 0: the check fails and the penalty is 0.
CeilingExceededWithoutPenalty ==
    /\ prog = "corridor"
    /\ cfg.phi_dw_max <= 0
    /\ check_dw_ceiling(cfg, phi_dw) = "DwCeilingExceeded"
    /\ dw_violation(cfg, phi_dw) = 0

\* A flux over a ceiling > 0: the check fails and the penalty is the overage.
CeilingExceededWithPenalty ==
    /\ prog = "corridor"
    /\ cfg.phi_dw_max > 0
    /\ check_dw_ceiling(cfg, phi_dw) = "DwCeilingExceeded"
    /\ dw_violation(cfg, phi_dw) > 0


\* Two unit factors are the same ratio.
SameFactor(a, b) == IF a.den = b.den THEN a.num = b.num ELSE a.num * b.den = b.num * a.den

\* The unit factor of each copy for the row, temperature and molar mass of
\* the state.
FactorOfCorridor ==
    unit_to_kg_factor(estRow.row.unit, estRow.temperature_k, estRow.molar_mass)
FactorOfEibon ==
    unit_to_kg_factor_eibon(estRow.row.unit, estRow.temperature_k, estRow.molar_mass)
FactorOfCratesGuard ==
    unit_to_kg_factor_crates_guard(estRow.row.unit, estRow.temperature_k, estRow.molar_mass)
FactorOfGuard ==
    unit_to_kg_factor_guard(estRow.row.unit, estRow.temperature_k, estRow.molar_mass)

\* C29: every copy of unit_to_kg_factor returns the same factor for the same
\* unit tag, temperature and molar mass (M/(R*T)*1e-9 for ppb), and the same
\* row has the same removed mass in either compute_mass_kg.
C29_AllCopiesSameFactor ==
    /\ estOut.call = "unit_to_kg_factor" =>
          /\ SameFactor(estOut.factor, FactorOfCorridor)
          /\ SameFactor(estOut.factor, FactorOfEibon)
          /\ SameFactor(estOut.factor, FactorOfCratesGuard)
          /\ SameFactor(estOut.factor, FactorOfGuard)
          /\ estRow.row.unit = "ppb" =>
                estOut.factor = [num |-> 10 * estRow.molar_mass,
                                 den |-> 83145 * estRow.temperature_k]
    /\ estOut.call = "compute_mass_kg" =>
          /\ estOut.mass_kg = compute_mass_kg(estRow.row, estRow.temperature_k,
                                              estRow.molar_mass)
          /\ estOut.mass_kg = compute_mass_kg_eibon(estRow.row, estRow.temperature_k,
                                                    estRow.molar_mass)

\* What the copies share: eibon_core and cybo_air_bee_guard return the same
\* factor for every tag, and crates/cyboair-bee-guard too but for ppb; the
\* corridor library returns theirs for ppb and for a tag none of them knows,
\* which is 0 in all four.
CopiesAgreeOnSharedTags ==
    prog = "estimators" =>
        /\ FactorOfEibon = FactorOfGuard
        /\ estRow.row.unit # "ppb" => FactorOfCratesGuard = FactorOfEibon
        /\ estRow.row.unit \notin {"ugm3", "mgm3", "ug/m3", "mg/m3"} =>
              FactorOfCorridor = FactorOfEibon
        /\ estRow.row.unit \notin {"ugm3", "mgm3", "ug/m3", "mg/m3", "ppb"} =>
              /\ FactorOfCorridor.num = 0
              /\ FactorOfCratesGuard.num = 0

\* The corridor library returned 0 for the tag ug/m3, which eibon_core
\* converts, and the row has a mass > 0 in eibon_core.
TagKnownToOneCopyOnly ==
    /\ estOut.call = "unit_to_kg_factor"
    /\ estOut.crate = "cyboair_corridor_safety"
    /\ estRow.row.unit = "ug/m3"
    /\ estOut.factor.num = 0
    /\ FactorOfEibon.num = 1
    /\ compute_mass_kg(estRow.row, estRow.temperature_k, estRow.molar_mass) = 0
    /\ compute_mass_kg_eibon(estRow.row, estRow.temperature_k, estRow.molar_mass) > 0

\* crates/cyboair-bee-guard returned a ppb factor 101325 times the one of
\* eibon_core.
PpbFactorCarriesPressure ==
    /\ estOut.call = "unit_to_kg_factor"
    /\ estOut.crate = "cyboair-bee-guard"
    /\ estRow.row.unit = "ppb"
    /\ estOut.factor.den = FactorOfEibon.den
    /\ estOut.factor.num = 101325 * FactorOfEibon.num

====
